---------------------------- MODULE Spec2Model ----------------------------
(***************************************************************************)
(* The debate orchestrator of ai-debate: the LangGraph state machine of    *)
(* src/orchestrator/graph.py (mcp_bootstrap -> analyses -> debate_round    *)
(* -> {debate_round | consensus} -> mcp_shutdown -> END) running over the  *)
(* ConversationBus of src/bus.py.                                          *)
(*                                                                         *)
(* Spec is a run as api_debate_stream starts it: run_debate_streaming of   *)
(* app.py builds the state, iterates the graph and, after every node,      *)
(* projects the new bus messages into events on the queue of the stream.   *)
(* SpecBus drives the ConversationBus and the projector loop on their own, *)
(* with arbitrary publishes and reads.                                     *)
(*                                                                         *)
(* Python strings whose letters matter (agent names, compared through      *)
(* str.lower()) are sequences of one-character strings.  A fan-out made by *)
(* asyncio.gather is a sequence of tasks: the event loop runs the first    *)
(* step of every task in list order (up to its first suspension) and then  *)
(* resumes the suspended tasks in any order.                               *)
(***************************************************************************)
EXTENDS Integers, Sequences, FiniteSets, TLC

\* ------------------------------ bounds ---------------------------------
\* largest total_rounds a run is started with
MaxRounds == 2
\* largest number of agent capability calls that raise in one run
MaxRaises == 1
\* TOOL_BUDGET_PER_ROUND, the tool budget every agent is built with
MaxBudget == 1
\* largest number of messages published to a bus driven on its own
MaxPublishes == 3
\* largest n of a tail(n)
MaxTail == 2
\* largest number of calls made on a router driven on its own
MaxOps == 4
\* largest number of maybe_call_tool calls made on an agent driven on its own
MaxCalls == 2

\* ------------------------------ strings --------------------------------
UpperAlpha == <<"A","B","C","D","E","F","G","H","I","J","K","L","M",
                "N","O","P","Q","R","S","T","U","V","W","X","Y","Z">>
LowerAlpha == <<"a","b","c","d","e","f","g","h","i","j","k","l","m",
                "n","o","p","q","r","s","t","u","v","w","x","y","z">>

\* the lower-case letter of every upper-case letter
LowerTable ==
    [c \in {UpperAlpha[k] : k \in 1..Len(UpperAlpha)} |->
        LowerAlpha[CHOOSE k \in 1..Len(UpperAlpha) : UpperAlpha[k] = c]]

\* str.lower() on one character
LowerChar(c) == IF c \in DOMAIN LowerTable THEN LowerTable[c] ELSE c

\* str.lower()
Lower(s) == [k \in 1..Len(s) |-> LowerChar(s[k])]

s_planner == <<"p","l","a","n","n","e","r">>
s_judge == <<"j","u","d","g","e">>
s_orchestrator == <<"o","r","c","h","e","s","t","r","a","t","o","r">>

n_Planner == <<"P","l","a","n","n","e","r">>
n_Judge == <<"J","u","d","g","e">>
n_OpenAI == <<"O","p","e","n","A","I">>
n_Claude == <<"C","l","a","u","d","e">>
n_Gemini == <<"G","e","m","i","n","i">>
n_Scribe == <<"S","c","r","i","b","e">>
n_JUDGE == <<"J","U","D","G","E">>

\* Python's None, for an optional string
None == "None"
\* an optional list: absent, or the list
NoList == <<>>
SomeList(l) == <<l>>

\* ------------------------------ agents ---------------------------------
\* BaseAgent: the name and the class attribute `participates`
Agent(name, participates) == [name |-> name, participates |-> participates]

PlannerAgent == Agent(n_Planner, FALSE)
JudgeAgent == Agent(n_Judge, FALSE)
ModelAgent(name) == Agent(name, TRUE)

\* the agent lists a run is started with (DebateState.agents); the graph
\* takes any list, the empty one included
Rosters ==
    { <<PlannerAgent, ModelAgent(n_OpenAI), ModelAgent(n_Claude), JudgeAgent>>,
      <<ModelAgent(n_OpenAI), ModelAgent(n_Claude), ModelAgent(n_Gemini), JudgeAgent>>,
      <<ModelAgent(n_OpenAI), ModelAgent(n_Claude)>>,
      <<PlannerAgent, JudgeAgent>>,
      <<ModelAgent(n_Claude), ModelAgent(n_JUDGE), Agent(n_Scribe, FALSE)>>,
      <<>> }

\* the tool-routing set-ups a run is started with:
\*   supplied:  DebateState.mcp_router is already set by the caller
\*   available: the import of MCPToolRouter succeeded
\*   servers:   MCP_SERVERS names at least one server
McpConfigs ==
    { [supplied |-> TRUE,  available |-> TRUE,  servers |-> TRUE],
      [supplied |-> FALSE, available |-> FALSE, servers |-> FALSE],
      [supplied |-> FALSE, available |-> TRUE,  servers |-> FALSE],
      [supplied |-> FALSE, available |-> TRUE,  servers |-> TRUE] }

\* the outcomes of an awaited call: it returns or it raises
Outcomes == {"ok", "raise"}

VARIABLES
    request,       \* the query of api_debate_stream and the settings of the process
    router,        \* an MCPToolRouter: servers_argv, sessions, tools, _stack
    allowlist,     \* BaseAgent.tool_allowlist of an agent driven on its own
    ops,           \* the calls made on `router` and on that agent, in order
    node,          \* the graph node that runs next ("END" when the graph is done)
    agents,        \* DebateState.agents
    total_rounds,  \* DebateState.total_rounds
    round_no,      \* DebateState.round_no
    mcp_router,    \* DebateState.mcp_router: None or "router"
    bus,           \* ConversationBus._msgs
    mcp,           \* the tool-routing set-up of the process
    parallel,      \* PARALLEL_ANALYSES
    entered,       \* whether the handler of `node` is running (awaiting its fan-out)
    r,             \* _debate_round's local r
    tasks,         \* the fan-out of the running node, one task per agent
    completed,     \* indices of `tasks` in the order the calls completed
    executed,      \* the nodes run so far, in order
    calls,         \* the agent capability calls made so far, in order
    raised,        \* number of capability calls that raised
    faults,        \* the capability calls that raised
    tool_budget,   \* BaseAgent.tool_budget_per_round of each agent of the list
    start_result,  \* how MCPToolRouter.start() ended, None while not called
    stop_result,   \* how mcp_router.stop() ended in _mcp_shutdown, None while not called
    app,           \* where run_debate_streaming and its runner stand
    events,        \* what has been put on the queue of the stream, in order
    polled,        \* whether the loop body of run_debate_streaming has run
                   \* for the last value the graph yielded
    printed,       \* run_debate_streaming's printed
    last_round_banner, \* run_debate_streaming's last_round_banner
    returned,      \* the last read of the bus: operation, argument, and the
                   \* list it handed out
    sent,          \* the messages handed to ConversationBus.publish, in order
    taken,         \* number of items event_stream has got from the queue
    yielded        \* the frames event_stream has yielded, in order

streamVars == <<app, events, printed, last_round_banner>>
toolVars == <<router, allowlist, ops>>
apiVars == <<returned, sent>>
queueVars == <<taken, yielded>>

vars == <<request, router, allowlist, ops, node, agents, total_rounds, round_no, mcp_router, bus, mcp, parallel,
          entered, r, tasks, completed, executed, calls, raised, faults,
          tool_budget, start_result, stop_result, app, events, polled, printed,
          last_round_banner, returned, sent, taken, yielded>>

\* ------------------------------- bus -----------------------------------
\* DebateMessage as built by ConversationBus.publish from a dict
DebateMessage(type, agent, round, content, tool_calls, to, status) ==
    [type |-> type, agent |-> agent, round |-> round, content |-> content,
     tool_calls |-> tool_calls, to |-> to, status |-> status]

\* a publish that puts the message in front
publish_InFront(msgs, m) == <<m>> \o msgs

\* ConversationBus.publish
publish(msgs, m) == Append(msgs, m)

\* ConversationBus.history: a copy of the list
history(msgs) == msgs

\* a history() that hands out self._msgs itself
history_list_Same(msgs) == [shared |-> TRUE, value |-> msgs]

\* the list object history() hands out: list(self._msgs), a new list
history_list(msgs) == [shared |-> FALSE, value |-> history(msgs)]

\* a view that tests the kind of a message but not its round
history_upto_round_AnyRound(msgs, rr) ==
    IF rr <= 0
    THEN SelectSeq(msgs, LAMBDA m : m.type \in {"plan", "analysis", "system"})
    ELSE SelectSeq(msgs, LAMBDA m :
             m.type \in {"plan", "analysis", "argument", "rebuttal",
                         "final_conclusion", "system"})

\* a view that leaves the plan out of round 0
history_upto_round_NoPlan(msgs, rr) ==
    IF rr <= 0
    THEN SelectSeq(msgs, LAMBDA m : m.type \in {"analysis", "system"})
    ELSE SelectSeq(msgs, LAMBDA m :
             /\ m.type \in {"plan", "analysis", "argument", "rebuttal",
                            "final_conclusion", "system"}
             /\ m.round <= rr)

\* ConversationBus.history_upto_round
history_upto_round(msgs, rr) ==
    IF rr <= 0
    THEN SelectSeq(msgs, LAMBDA m : m.type \in {"plan", "analysis", "system"})
    ELSE SelectSeq(msgs, LAMBDA m :
             /\ m.type \in {"plan", "analysis", "argument", "rebuttal",
                            "final_conclusion", "system"}
             /\ m.round <= rr)

\* ConversationBus.tail: self._msgs[-n:], which is the whole list for n = 0
tail(msgs, n) ==
    IF n = 0 \/ n >= Len(msgs) THEN msgs
    ELSE SubSeq(msgs, Len(msgs) - n + 1, Len(msgs))

\* ------------------------- orchestrator helpers -------------------------
\* str.strip(): leading and trailing blanks removed
RECURSIVE Strip(_)
Strip(s) ==
    IF s = <<>> THEN s
    ELSE IF Head(s) = " " THEN Strip(Tail(s))
    ELSE IF s[Len(s)] = " " THEN Strip(SubSeq(s, 1, Len(s) - 1))
    ELSE s

\* a recipient list that leaves out the roles but not the sender
_round_recipients_WithSender(all_agents, sender) ==
    LET kept == SelectSeq(all_agents,
                          LAMBDA a : /\ a.participates /\ a.name # <<>>
                                     /\ Lower(a.name) \notin {s_planner, s_judge})
    IN  [k \in 1..Len(kept) |-> kept[k].name]

\* _round_recipients
_round_recipients(all_agents, sender) ==
    LET s == Lower(Strip(sender))
        keep(a) == /\ a.participates
                   /\ a.name # <<>>
                   /\ Lower(a.name) \notin {s, s_planner, s_judge}
        kept == SelectSeq(all_agents, keep)
    IN  [k \in 1..Len(kept) |-> kept[k].name]

\* a run_for_agent that makes no exception for the planner
SkipsAnalysis_NoPlannerException(a) == ~a.participates

\* run_for_agent's early return: everyone but the planner respects `participates`
SkipsAnalysis(a) ==
    ~(a.name # <<>> /\ Lower(a.name) = s_planner) /\ ~a.participates

\* active_agents of _debate_round
ActiveAgents(all_agents) == SelectSeq(all_agents, LAMBDA a : a.participates)

\* the place in the agent list of the i-th active agent
ActiveIndex(all_agents, i) ==
    LET act == {k \in 1..Len(all_agents) : all_agents[k].participates}
    IN  CHOOSE k \in act : Cardinality({j \in act : j <= k}) = i

\* a filter that compares the role names without lower-casing the author
FilteredMsgs_NoLower(msgs, a) ==
    SelectSeq(history(msgs),
              LAMBDA m : m.agent # a.name /\ m.agent \notin {s_planner, s_judge})

\* filtered_msgs of _debate_round.draft
FilteredMsgs(msgs, a) ==
    SelectSeq(history(msgs),
              LAMBDA m : m.agent # a.name /\ Lower(m.agent) \notin {s_planner, s_judge})

\* msg_type of a draft that returned
MsgTypeReturned(rr) == IF rr = 1 THEN "argument" ELSE "rebuttal"

\* an error path that always labels the message an argument
MsgTypeRaised_AlwaysArgument(rr) == "argument"

\* msg_type of a draft that raised
MsgTypeRaised(rr) == IF rr > 1 THEN "rebuttal" ELSE "argument"

\* a consensus that always takes the first agent
Finaliser_FirstAgent(all_agents) == all_agents[1]

\* a consensus that looks for the name "judge" as spelt, letter case included
Finaliser_ExactJudge(all_agents) ==
    IF \E k \in 1..Len(all_agents) : all_agents[k].name = s_judge
    THEN all_agents[CHOOSE k \in 1..Len(all_agents) :
                        /\ all_agents[k].name = s_judge
                        /\ \A j \in 1..(k - 1) : all_agents[j].name # s_judge]
    ELSE all_agents[1]

\* the finaliser of _consensus: the first judge, else the first agent
Finaliser(all_agents) ==
    IF \E k \in 1..Len(all_agents) : Lower(all_agents[k].name) = s_judge
    THEN all_agents[CHOOSE k \in 1..Len(all_agents) :
                        /\ Lower(all_agents[k].name) = s_judge
                        /\ \A j \in 1..(k - 1) : Lower(all_agents[j].name) # s_judge]
    ELSE all_agents[1]

\* a conditional edge that compares the counter as it was before the increment
continue_debate_BeforeIncrement(rn, total) ==
    IF rn - 1 <= total THEN "debate_round" ELSE "consensus"

\* continue_debate of build_graph
continue_debate(rn, total) == IF rn <= total THEN "debate_round" ELSE "consensus"

\* a graph whose consensus node leads straight to END
AfterConsensus_SkipsShutdown == "END"

\* a graph whose edge out of the analyses is the conditional one
AfterAnalyses_Tested == continue_debate(round_no, total_rounds)

\* the unconditional edges of build_graph
EntryPoint == "mcp_bootstrap"
AfterBootstrap == "analyses"
AfterAnalyses == "debate_round"
AfterConsensus == "mcp_shutdown"
AfterShutdown == "END"

\* an except clause that builds the note but sets no status
StatusOf_NeverError(outcome) == None

\* status of the message an awaited capability call leads to
StatusOf(outcome) == IF outcome = "raise" THEN "error" ELSE None

\* content of that message: the text the agent returned, or the bracketed
\* note the except clause builds from the exception
ContentOf(outcome) == IF outcome = "raise" THEN "[error]" ELSE "text"

\* the record MCPToolRouter.call returns to ModelAgent.debate_turn
Evidence == [server |-> "local-stub", tool |-> "echo"]

\* a maybe_call_tool that does not look at the budget
CallsTool_AnyBudget(held, budget) == held

\* whether BaseAgent.maybe_call_tool goes through to the router: the agent
\* was built with a started router and its tool list, and has budget left
CallsTool(held, budget) == held /\ budget > 0

\* ModelAgent.debate_turn's tool_calls
ToolCalls(held, budget) == IF CallsTool(held, budget) THEN <<Evidence>> ELSE <<>>

\* ------------------------------- tasks ---------------------------------
NoResult == [msg_type |-> None, content |-> "", tool_calls |-> <<>>, status |-> None]

\* a coroutine handed to asyncio.gather (or awaited in turn), not yet run
NewTask(a) == [agent |-> a, st |-> "pending", seen |-> <<>>, ctx |-> <<>>,
               evidence |-> <<>>, res |-> NoResult]

Pending(ts) == \E k \in 1..Len(ts) : ts[k].st = "pending"
Finished(ts) == \A k \in 1..Len(ts) : ts[k].st \in {"done", "skipped"}

\* the first step of task i may run: the event loop starts the tasks of a
\* gather in list order; the sequential loop awaits each one to its end
CanStart(ts, i, par) ==
    /\ ts[i].st = "pending"
    /\ \A j \in 1..(i - 1) :
          IF par THEN ts[j].st # "pending" ELSE ts[j].st \in {"done", "skipped"}

\* an event loop that never resumes a suspended task
CanResume_Never(ts, i, par) == FALSE

\* the awaited call of task i may complete: a suspended task of a gather is
\* resumed only after every task of the gather has run its first step
CanResume(ts, i, par) ==
    /\ ts[i].st = "awaiting"
    /\ par => ~Pending(ts)

MayRaise(outcome) == outcome = "raise" => raised < MaxRaises
Bump(outcome) == IF outcome = "raise" THEN raised + 1 ELSE raised

\* the record of a capability call, and the calls that raised
Call(op, a, rr) == [op |-> op, agent |-> a.name, round |-> rr]
Fault(outcome, c) == IF outcome = "raise" THEN faults \cup {c} ELSE faults

\* the debaters are built with the router run_debate_streaming started and
\* with its tool list as their allowlist, or with neither
HasTools == mcp.supplied

\* the graph takes a step only inside run_debate_streaming's astream loop,
\* and a node starts only when the loop body is through with the last value
Streaming == app = "running"

\* ------------------------ the event stream -----------------------------
\* last_round_banner: None, "analyses" or f"round-{m.round}"
NoBanner == <<>>
AnalysesBanner == <<"analyses">>
RoundBanner(rr) == <<"round-", rr>>

\* the events put on the queue; src is not part of the event: it is the
\* place in the bus of the message the event was made from
\* _role_for_name
_role_for_name(name) ==
    IF Lower(name) = s_planner THEN "Planner"
    ELSE IF Lower(name) = s_judge THEN "Judge"
    ELSE "Agent"

RunStart(as, total) ==
    [type |-> "run.start", src |-> 0,
     agents |-> [k \in 1..Len(as) |->
                    [name |-> as[k].name, role |-> _role_for_name(as[k].name)]],
     total_rounds |-> total]
RunEnd == [type |-> "run.end", src |-> 0]
ErrorEvent == [type |-> "error", src |-> 0]
Sentinel == [type |-> None, src |-> 0]
RoundStart(m, i) == [type |-> "round.start", src |-> i, round |-> m.round]

\* the frames of the response: the opening comment, a data frame with the
\* JSON of an event, the closing done event
StartFrame == [event |-> "comment", data |-> <<>>]
DataFrame(evt) == [event |-> "message", data |-> <<evt>>]
DoneFrame == [event |-> "done", data |-> <<>>]

\* json.dumps(evt) raises on a value that is no JSON type: the result of a
\* tool call is whatever session.call_tool returned, a dict for the local
\* stub, an object of the SDK for a server reached over stdio
SdkObject == "object"
Serialisable(evt) == ~("result" \in DOMAIN evt /\ evt.result = SdkObject)
SerializeFailed == [type |-> "error", src |-> 0, message |-> "serialize failed"]

\* the payload of the data frame of an event: its JSON, or the JSON of the
\* error that stands in for an event json.dumps raised on
Payload(evt) == IF Serialisable(evt) THEN evt ELSE SerializeFailed

\* the frame event_stream yields for an item it got from the queue
FrameOf(item) == IF item = Sentinel THEN DoneFrame ELSE DataFrame(Payload(item))

\* event_stream of api_debate_stream, as the frames it has yielded once it
\* has taken the items `queue` off the queue: one data frame per item, up to
\* the first None, for which it yields the done event and stops
RECURSIVE Frames(_)
Frames(queue) ==
    IF queue = <<>> THEN <<>>
    ELSE IF Head(queue) = Sentinel THEN <<DoneFrame>>
    ELSE <<FrameOf(Head(queue))>> \o Frames(Tail(queue))

event_stream(queue) == <<StartFrame>> \o Frames(queue)
ToolEvent(m, call, i) ==
    [type |-> "tool", src |-> i, agent |-> m.agent,
     tool |-> <<call.server, ":", call.tool>>]

\* last_round_banner after the two banner tests of the loop body
NextBanner(m, banner) ==
    IF m.type = "analysis" THEN AnalysesBanner
    ELSE IF m.type \in {"argument", "rebuttal"} THEN RoundBanner(m.round)
    ELSE banner

\* a loop body that announces the round with every message of a round
Announces_EveryMessage(m, banner) == m.type \in {"argument", "rebuttal"}

\* whether the loop body emits round.start before the event of m
Announces(m, banner) ==
    m.type \in {"argument", "rebuttal"} /\ banner # RoundBanner(m.round)

\* an if/elif chain without the branch for final_conclusion
PrimaryEvents_NoConclusion(m, i) ==
    IF m.type \in {"analysis", "argument", "rebuttal", "final_conclusion"}
    THEN <<[type |-> "message", src |-> i, agent |-> m.agent,
            role |-> _role_for_name(m.agent), phase |-> m.type,
            content |-> m.content]>>
    ELSE IF m.type = "system"
    THEN <<[type |-> "system", src |-> i, content |-> m.content]>>
    ELSE <<>>

\* the event the if/elif chain on m.type emits, if any
PrimaryEvents(m, i) ==
    IF m.type = "analysis"
    THEN <<[type |-> "message", src |-> i, agent |-> m.agent,
            role |-> _role_for_name(m.agent), phase |-> "analysis",
            content |-> m.content]>>
    ELSE IF m.type \in {"argument", "rebuttal"}
    THEN <<[type |-> "message", src |-> i, agent |-> m.agent,
            role |-> _role_for_name(m.agent), phase |-> m.type, round |-> m.round,
            content |-> m.content]>>
    ELSE IF m.type = "final_conclusion"
    THEN <<[type |-> "conclusion", src |-> i, agent |-> m.agent, content |-> m.content]>>
    ELSE IF m.type = "system"
    THEN <<[type |-> "system", src |-> i, content |-> m.content]>>
    ELSE <<>>

\* a loop over m.tool_calls that runs from the last call to the first
ToolEvents_LastFirst(m, i) ==
    [k \in 1..Len(m.tool_calls) |->
        ToolEvent(m, m.tool_calls[Len(m.tool_calls) + 1 - k], i)]

\* the events of the loop over m.tool_calls
ToolEvents(m, i) ==
    [k \in 1..Len(m.tool_calls) |-> ToolEvent(m, m.tool_calls[k], i)]

\* one turn of the while loop of run_debate_streaming, on hist[i]
ProjectOne(m, i, banner) ==
    (IF Announces(m, banner) THEN <<RoundStart(m, i)>> ELSE <<>>)
        \o PrimaryEvents(m, i) \o ToolEvents(m, i)

\* the while loop: from the cursor to the end of hist
RECURSIVE Project(_, _, _, _)
Project(hist, cursor, banner, evs) ==
    IF cursor >= Len(hist)
    THEN [events |-> evs, printed |-> cursor, last_round_banner |-> banner]
    ELSE Project(hist, cursor + 1, NextBanner(hist[cursor + 1], banner),
                 evs \o ProjectOne(hist[cursor + 1], cursor + 1, banner))

\* no read of the bus yet; `shared` tells whether the list handed out is
\* the list of the bus itself, `at` is the number of publishes before the read
NoRead == [op |-> None, arg |-> 0, value |-> <<>>, shared |-> FALSE, at |-> 0]

\* the tool-routing set-ups explored with an agent list: all of them for
\* the lists of up to two debaters, the one of an unset MCP_SERVERS for the
\* longer lists
McpConfigsFor(all_agents) ==
    IF Len(ActiveAgents(all_agents)) > 2
    THEN {c \in McpConfigs : ~c.supplied /\ c.available /\ ~c.servers}
    ELSE McpConfigs

\* ------------------------------ requests -------------------------------
t_topic == <<"A","I">>
t_blank == <<" ">>
t_placeholder == <<" ","T","o","p","i","c"," ","h","e","r","e">>
s_topic_here == <<"t","o","p","i","c"," ","h","e","r","e">>
s_your_topic_here == <<"y","o","u","r"," ">> \o s_topic_here
s_openai == <<"o","p","e","n","a","i">>
s_claude == <<"c","l","a","u","d","e">>
s_gemini == <<"g","e","m","i","n","i">>
s_anthropic == <<"a","n","t","h","r","o","p","i","c">>
n_Llama == <<"L","l","a","m","a">>
v_OpenAI == n_OpenAI
v_Mistral == <<"M","i","s","t","r","a","l">>

\* the rounds parameter of the query: absent, an integer literal, or
\* another string
NoRounds == [kind |-> "missing", value |-> 0]
JunkRounds == [kind |-> "junk", value |-> 0]
IntRounds(n) == [kind |-> "int", value |-> n]

\* the fallback of api_debate_stream for the rounds parameter
DefaultRounds == 3

\* rounds of api_debate_stream: int(request.args.get("rounds") or 3), and 3
\* when int() raises
ParseRounds(param) == IF param.kind = "int" THEN param.value ELSE DefaultRounds

\* a query and the settings it meets: topic and rounds of the query string,
\* settings.agents, JUDGE_VENDOR
Request(topic, rounds, names, judge_vendor) ==
    [topic |-> topic, rounds |-> rounds, agents |-> names, judge_vendor |-> judge_vendor]

\* the first check of run_debate_streaming, on the topic api_debate_stream
\* has stripped
TopicRejected(topic) ==
    LET stripped == Strip(topic) IN
    \/ stripped = <<>>
    \/ Lower(Strip(stripped)) \in {s_your_topic_here, s_topic_here}

\* a make_model_agents that takes any name
UnknownAgent_NeverRaised(names) == FALSE

\* make_model_agents: a name that is none of openai, claude, gemini raises
UnknownAgent(names) ==
    \E k \in 1..Len(names) : Lower(names[k]) \notin {s_openai, s_claude, s_gemini}

\* the JUDGE_VENDOR branches of run_debate_streaming: the else branch raises
JudgeVendorRejected(v) == Lower(v) \notin {s_openai, s_anthropic, s_gemini}

GoodRequest(rounds) == Request(t_topic, rounds, <<n_OpenAI, n_Claude>>, v_OpenAI)

\* the requests a run is started with: the well-formed ones, and one for
\* each way of being ill-formed
Requests ==
    { GoodRequest(IntRounds(n)) : n \in (-1)..MaxRounds }
    \cup { GoodRequest(NoRounds), GoodRequest(JunkRounds),
           Request(t_blank, IntRounds(1), <<n_OpenAI, n_Claude>>, v_OpenAI),
           Request(t_placeholder, IntRounds(1), <<n_OpenAI, n_Claude>>, v_OpenAI),
           Request(t_topic, IntRounds(1), <<n_OpenAI, n_Llama>>, v_OpenAI),
           Request(t_topic, IntRounds(1), <<n_OpenAI, n_Claude>>, v_Mistral),
           Request(t_topic, NoRounds, <<n_OpenAI, n_Claude>>, v_Mistral) }

\* --------------------------- the tool router ---------------------------
s_local_stub == <<"l","o","c","a","l","-","s","t","u","b">>
\* the argv of the servers: the in-process stub as a user may spell it, a
\* stdio server, an empty argv
argv_stub == << <<" ","L","o","c","a","l","-","s","t","u","b">> >>
argv_web == << <<"W","e","b">>, <<"-","u">> >>
argv_empty == <<>>

\* the key under which a tool is registered: f"{server}:{tool}"
ToolKey(server, tool) == <<server, ":", tool>>
k_echo == ToolKey(s_local_stub, "echo")
k_search == ToolKey(argv_web[1], "search")
k_other == ToolKey(s_local_stub, "search")

\* MCPToolRouter.__init__; sdk tells whether the import of the MCP SDK
\* succeeded in the module of the router
MCPToolRouter(servers_argv, sdk) ==
    [servers_argv |-> servers_argv, sessions |-> <<>>, tools |-> {},
     _stack |-> NoList, sdk |-> sdk]

\* how a call on the router ended, and the router it left
Ended(result, rt) == [result |-> result, router |-> rt]

\* a start() that sets up its servers whether or not it has a stack
AlreadyStarted_Never(rt) == FALSE

\* the first test of start()
AlreadyStarted(rt) == rt._stack # NoList

\* the loop of start() from server k on; connect is how the connection to a
\* stdio server ends (stdio_client, initialize, list_tools)
RECURSIVE start_servers(_, _, _)
start_servers(rt, k, connect) ==
    IF k > Len(rt.servers_argv) THEN Ended("ok", rt)
    ELSE LET argv == rt.servers_argv[k] IN
         IF argv = <<>> THEN Ended("ValueError", rt)
         ELSE LET server_name == Lower(Strip(argv[1])) IN
              IF server_name = s_local_stub
              THEN start_servers([rt EXCEPT !.tools = @ \cup {ToolKey(server_name, "echo")},
                                            !.sessions = Append(@, server_name)],
                                 k + 1, connect)
              ELSE IF ~rt.sdk THEN Ended("RuntimeError", rt)
              ELSE IF connect = "raise" THEN Ended("raise", rt)
              ELSE start_servers([rt EXCEPT !._stack = SomeList(Append(@[1], argv[1])),
                                            !.tools = @ \cup {ToolKey(argv[1], "search")},
                                            !.sessions = Append(@, argv[1])],
                                 k + 1, connect)

\* MCPToolRouter.start
router_start(rt, connect) ==
    IF AlreadyStarted(rt) THEN Ended("ok", rt)
    ELSE start_servers([rt EXCEPT !._stack = SomeList(<<>>)], 1, connect)

\* a stop() whose try lets the exception of close() through
CloseCaught_OnlySuccess(outcome) == outcome = "ok"

\* the try/except Exception of stop() under anyio.move_on_after(1): a close
\* that returns, raises or does not return in time is passed over
CloseCaught(outcome) == outcome \in {"ok", "raise", "timeout"}

\* MCPToolRouter.stop; close is how the close() of the sessions ends, aclose
\* how the aclose() of the stack ends
router_stop(rt, close, aclose) ==
    IF rt.sessions # <<>> /\ ~CloseCaught(close) THEN Ended("raise", rt)
    ELSE LET cleared == [rt EXCEPT !.sessions = <<>>] IN
         IF cleared._stack = NoList THEN Ended("ok", cleared)
         ELSE IF ~CloseCaught(aclose) THEN Ended("raise", cleared)
         ELSE Ended("ok", [cleared EXCEPT !._stack = NoList])

\* MCPToolRouter.list_tools
router_list_tools(rt) == rt.tools

\* MCPToolRouter.call: an unknown key raises, a known one is passed to the
\* session of its handle, which returns or raises
router_call(rt, tool_key, outcome) ==
    IF tool_key \notin rt.tools THEN "ValueError"
    ELSE IF outcome = "raise" THEN "raise"
    ELSE "result"

\* ------------------------ the agent's tool helper ------------------------
Range(seq) == {seq[k] : k \in 1..Len(seq)}

\* BaseAgent.get_effective_router: the router of the agent, else the router
\* of the context
get_effective_router(tool_router, ctx_router) ==
    IF tool_router # None THEN tool_router ELSE ctx_router

\* how a maybe_call_tool ended: what it returned (or how it raised), the
\* budget it left, and how many times it invoked router.call
Called(result, budget, invocations) ==
    [result |-> result, budget |-> budget, invocations |-> invocations]

\* a maybe_call_tool that does not look at the allowlist
maybe_call_tool_AnyKey(effective, allow, budget, rt, tool_key, outcome) ==
    IF effective = None THEN Called(None, budget, 0)
    ELSE IF budget <= 0 THEN Called(None, budget, 0)
    ELSE Called(router_call(rt, tool_key, outcome), budget - 1, 1)

\* BaseAgent.maybe_call_tool; rt is the router behind the effective router,
\* outcome how the session of the tool ends the call
maybe_call_tool(effective, allow, budget, rt, tool_key, outcome) ==
    IF effective = None THEN Called(None, budget, 0)
    ELSE IF allow = <<>> \/ tool_key \notin Range(allow) THEN Called(None, budget, 0)
    ELSE IF budget <= 0 THEN Called(None, budget, 0)
    ELSE Called(router_call(rt, tool_key, outcome), budget - 1, 1)

\* ------------------------------- Init ----------------------------------
Init ==
    /\ node = EntryPoint
    /\ router = MCPToolRouter(<<>>, FALSE)
    /\ allowlist = <<>>
    /\ ops = <<>>
    /\ request \in Requests
    /\ agents \in Rosters
    /\ request.rounds.kind # "int" => ActiveAgents(agents) = <<>>
    /\ total_rounds = ParseRounds(request.rounds)
    /\ round_no = 1
    /\ mcp \in McpConfigsFor(agents)
    /\ mcp_router = None
    /\ bus = <<>>
    /\ parallel \in BOOLEAN
    /\ entered = FALSE
    /\ r = 0
    /\ tasks = <<>>
    /\ completed = <<>>
    /\ executed = <<>>
    /\ calls = <<>>
    /\ raised = 0
    /\ faults = {}
    /\ tool_budget = [k \in 1..Len(agents) |-> MaxBudget]
    /\ start_result = None
    /\ stop_result = None
    /\ app = "init"
    /\ events = <<>>
    /\ polled = TRUE
    /\ printed = 0
    /\ last_round_banner = NoBanner
    /\ returned = NoRead
    /\ sent = <<>>
    /\ taken = 0
    /\ yielded = <<>>

\* --------------------------- mcp_bootstrap ------------------------------
SystemMessage(content) ==
    DebateMessage("system", s_orchestrator, 0, content, <<>>, NoList, None)

NotSetNote == "[MCP enabled but MCP_SERVERS not set; continuing without MCP]"
InitialisedNote == "MCP initialised with servers"
FailedNote == "[MCP initialisation failed]"

\* _mcp_bootstrap; `started` is whether MCPToolRouter.start() returned
_mcp_bootstrap(started) ==
    /\ Streaming /\ polled
    /\ node = "mcp_bootstrap"
    /\ executed' = Append(executed, "mcp_bootstrap")
    /\ node' = AfterBootstrap
    /\ polled' = FALSE
    /\ IF mcp_router # None \/ ~mcp.available
       THEN /\ started
            /\ UNCHANGED <<mcp_router, bus, start_result>>
       ELSE IF ~mcp.servers
       THEN /\ started
            /\ bus' = publish(bus, SystemMessage(NotSetNote))
            /\ UNCHANGED <<mcp_router, start_result>>
       ELSE /\ mcp_router' = (IF started THEN "router" ELSE None)
            /\ start_result' = (IF started THEN "ok" ELSE "raise")
            /\ bus' = publish(bus, SystemMessage(IF started THEN InitialisedNote
                                                  ELSE FailedNote))
    /\ UNCHANGED <<request, queueVars, toolVars, agents, total_rounds, round_no, mcp, parallel, entered, r,
                   tasks, completed, calls, raised, faults, tool_budget,
                   stop_result, streamVars, apiVars>>

\* ------------------------------ analyses --------------------------------
AnalysisMessage(a, outcome) ==
    DebateMessage("analysis", a.name, 0, ContentOf(outcome), <<>>, NoList,
                  StatusOf(outcome))

\* _analysis_step up to the fan-out: one run_for_agent coroutine per agent
_analysis_step ==
    /\ Streaming /\ polled
    /\ node = "analyses"
    /\ ~entered
    /\ entered' = TRUE
    /\ executed' = Append(executed, "analyses")
    /\ tasks' = [k \in 1..Len(agents) |-> NewTask(agents[k])]
    /\ completed' = <<>>
    /\ UNCHANGED <<node, request, queueVars, toolVars, agents, total_rounds, round_no, mcp_router, bus, mcp,
                   parallel, r, calls, raised, faults, tool_budget, start_result,
                   stop_result, polled, streamVars, apiVars>>

\* run_for_agent up to the await of a.analysis(ctx); a call that never
\* suspends (suspends = FALSE) runs on to the publish in the same step
run_for_agent_start(i, suspends, outcome) ==
    /\ node = "analyses"
    /\ entered
    /\ i \in 1..Len(tasks)
    /\ CanStart(tasks, i, parallel)
    /\ LET a == tasks[i].agent IN
       IF SkipsAnalysis(a)
       THEN /\ suspends /\ outcome = "ok"
            /\ tasks' = [tasks EXCEPT ![i].st = "skipped"]
            /\ UNCHANGED <<bus, calls, raised, faults, completed>>
       ELSE /\ calls' = Append(calls, Call("analysis", a, 0))
            /\ IF suspends
               THEN /\ outcome = "ok"
                    /\ tasks' = [tasks EXCEPT ![i].st = "awaiting",
                                              ![i].seen = history(bus),
                                              ![i].ctx = history(bus)]
                    /\ UNCHANGED <<bus, raised, faults, completed>>
               ELSE /\ MayRaise(outcome)
                    /\ raised' = Bump(outcome)
                    /\ faults' = Fault(outcome, Call("analysis", a, 0))
                    /\ tasks' = [tasks EXCEPT ![i].st = "done",
                                              ![i].seen = history(bus),
                                              ![i].ctx = history(bus)]
                    /\ bus' = publish(bus, AnalysisMessage(a, outcome))
                    /\ completed' = Append(completed, i)
    /\ UNCHANGED <<node, request, queueVars, toolVars, agents, total_rounds, round_no, mcp_router, mcp,
                   parallel, entered, r, executed, tool_budget, start_result,
                   stop_result, polled, streamVars, apiVars>>

\* run_for_agent from the completion of a.analysis(ctx) to its publish
run_for_agent_resume(i, outcome) ==
    /\ node = "analyses"
    /\ entered
    /\ i \in 1..Len(tasks)
    /\ CanResume(tasks, i, parallel)
    /\ MayRaise(outcome)
    /\ raised' = Bump(outcome)
    /\ tasks' = [tasks EXCEPT ![i].st = "done"]
    /\ faults' = Fault(outcome, Call("analysis", tasks[i].agent, 0))
    /\ bus' = publish(bus, AnalysisMessage(tasks[i].agent, outcome))
    /\ completed' = Append(completed, i)
    /\ UNCHANGED <<node, request, queueVars, toolVars, agents, total_rounds, round_no, mcp_router, mcp,
                   parallel, entered, r, executed, calls, tool_budget,
                   start_result, stop_result, polled, streamVars, apiVars>>

\* _analysis_step returns once every run_for_agent has
_analysis_return ==
    /\ node = "analyses"
    /\ entered
    /\ Finished(tasks)
    /\ node' = AfterAnalyses
    /\ entered' = FALSE
    /\ tasks' = <<>>
    /\ polled' = FALSE
    /\ UNCHANGED <<request, queueVars, toolVars, agents, total_rounds, round_no, mcp_router, bus, mcp,
                   parallel, r, completed, executed, calls, raised, faults,
                   tool_budget, start_result, stop_result, streamVars, apiVars>>

\* ---------------------------- debate_round ------------------------------
\* the message _debate_round publishes for a draft
RoundMessage(t, rr, active) ==
    DebateMessage(t.res.msg_type, t.agent.name, rr, t.res.content, t.res.tool_calls,
                  SomeList(_round_recipients(active, t.agent.name)), t.res.status)

\* the result tuple of a draft whose debate_turn call ended with `outcome`,
\* `evidence` being the tool_calls the agent had gathered
DraftResult(rr, outcome, evidence) ==
    [msg_type |-> IF outcome = "raise" THEN MsgTypeRaised(rr) ELSE MsgTypeReturned(rr),
     content |-> ContentOf(outcome),
     tool_calls |-> IF outcome = "raise" THEN <<>> ELSE evidence,
     status |-> StatusOf(outcome)]

\* a fan-in that publishes the drafts in the order they completed
PublishOrder_Completion(ts, done) == done

\* the order in which the fan-in loop of _debate_round publishes the drafts:
\* asyncio.gather returns the results in the order of its arguments
PublishOrder(ts, done) == [k \in 1..Len(ts) |-> k]

\* the "Publish in defined order" loop of _debate_round
RECURSIVE PublishDrafts(_, _, _, _, _)
PublishDrafts(msgs, ts, order, rr, active) ==
    IF order = <<>> THEN msgs
    ELSE PublishDrafts(publish(msgs, RoundMessage(ts[Head(order)], rr, active)),
                       ts, Tail(order), rr, active)

\* _debate_round up to the fan-out: r and active_agents are fixed, one draft
\* coroutine per active agent is handed to asyncio.gather
_debate_round ==
    /\ Streaming /\ polled
    /\ node = "debate_round"
    /\ ~entered
    /\ entered' = TRUE
    /\ executed' = Append(executed, "debate_round")
    /\ r' = round_no
    /\ tasks' = [k \in 1..Len(ActiveAgents(agents)) |-> NewTask(ActiveAgents(agents)[k])]
    /\ completed' = <<>>
    /\ UNCHANGED <<node, request, queueVars, toolVars, agents, total_rounds, round_no, mcp_router, bus, mcp,
                   parallel, calls, raised, faults, tool_budget, start_result,
                   stop_result, polled, streamVars, apiVars>>

\* a draft that publishes its own message as soon as its call completes
draft_done_publishing(ts, i, outcome) ==
    /\ tasks' = [ts EXCEPT ![i].st = "done", ![i].res = DraftResult(r, outcome, ts[i].evidence)]
    /\ bus' = publish(bus, RoundMessage([ts[i] EXCEPT !.res = DraftResult(r, outcome, ts[i].evidence)],
                                        r, ActiveAgents(agents)))

\* what the completion of draft i leaves behind: its result tuple, kept by
\* the gather until every draft is in; nothing is published yet
draft_done(ts, i, outcome) ==
    /\ tasks' = [ts EXCEPT ![i].st = "done", ![i].res = DraftResult(r, outcome, ts[i].evidence)]
    /\ bus' = bus

\* draft up to the await of a.debate_turn(ctx): the bus is read and filtered;
\* a call that never suspends runs on to the return in the same step
draft_start(i, suspends, outcome) ==
    /\ node = "debate_round"
    /\ entered
    /\ i \in 1..Len(tasks)
    /\ CanStart(tasks, i, TRUE)
    /\ LET a == tasks[i].agent
           k == ActiveIndex(agents, i)
           read == [tasks EXCEPT ![i].seen = history(bus),
                                 ![i].ctx = FilteredMsgs(bus, a),
                                 ![i].evidence = ToolCalls(HasTools, tool_budget[k])]
       IN  /\ calls' = Append(calls, Call("debate_turn", a, r))
           /\ tool_budget' = [tool_budget EXCEPT
                                 ![k] = IF CallsTool(HasTools, @) THEN @ - 1 ELSE @]
           /\ IF suspends
              THEN /\ outcome = "ok"
                   /\ tasks' = [read EXCEPT ![i].st = "awaiting"]
                   /\ UNCHANGED <<bus, raised, faults, completed>>
              ELSE /\ MayRaise(outcome)
                   /\ raised' = Bump(outcome)
                   /\ faults' = Fault(outcome, Call("debate_turn", a, r))
                   /\ draft_done(read, i, outcome)
                   /\ completed' = Append(completed, i)
    /\ UNCHANGED <<node, request, queueVars, toolVars, agents, total_rounds, round_no, mcp_router, mcp,
                   parallel, entered, r, executed, start_result, stop_result,
                   polled, streamVars, apiVars>>

\* draft from the completion of a.debate_turn(ctx) to its return
draft_resume(i, outcome) ==
    /\ node = "debate_round"
    /\ entered
    /\ i \in 1..Len(tasks)
    /\ CanResume(tasks, i, TRUE)
    /\ MayRaise(outcome)
    /\ raised' = Bump(outcome)
    /\ faults' = Fault(outcome, Call("debate_turn", tasks[i].agent, r))
    /\ draft_done(tasks, i, outcome)
    /\ completed' = Append(completed, i)
    /\ UNCHANGED <<node, request, queueVars, toolVars, agents, total_rounds, round_no, mcp_router, mcp,
                   parallel, entered, r, executed, calls, tool_budget,
                   start_result, stop_result, polled, streamVars, apiVars>>

\* _debate_round after the gather: the drafts are published, round_no is
\* incremented, and the conditional edge picks the next node
_debate_round_publish ==
    /\ node = "debate_round"
    /\ entered
    /\ Finished(tasks)
    /\ bus' = PublishDrafts(bus, tasks, PublishOrder(tasks, completed), r,
                            ActiveAgents(agents))
    /\ round_no' = round_no + 1
    /\ node' = continue_debate(round_no + 1, total_rounds)
    /\ entered' = FALSE
    /\ tasks' = <<>>
    /\ polled' = FALSE
    /\ UNCHANGED <<request, queueVars, toolVars, agents, total_rounds, mcp_router, mcp, parallel, r,
                   completed, executed, calls, raised, faults, tool_budget,
                   start_result, stop_result, streamVars, apiVars>>

\* ------------------------------ consensus -------------------------------
\* _consensus: propose_consensus is awaited on the finaliser alone. The
\* default of next(), state.agents[0], is evaluated before the search: on an
\* empty list it raises IndexError, which leaves the graph and
\* run_debate_streaming with it.
_consensus(outcome) ==
    /\ Streaming /\ polled
    /\ node = "consensus"
    /\ executed' = Append(executed, "consensus")
    /\ IF agents = <<>>
       THEN /\ outcome = "ok"
            /\ app' = "failed"
            /\ UNCHANGED <<raised, polled, calls, faults, bus, node, completed>>
       ELSE /\ MayRaise(outcome)
            /\ raised' = Bump(outcome)
            /\ polled' = FALSE
            /\ LET finaliser == Finaliser(agents) IN
               /\ calls' = Append(calls, Call("propose_consensus", finaliser, total_rounds))
               /\ faults' = Fault(outcome, Call("propose_consensus", finaliser, total_rounds))
               /\ bus' = publish(bus, DebateMessage("final_conclusion", finaliser.name,
                                                    total_rounds, ContentOf(outcome), <<>>,
                                                    NoList, StatusOf(outcome)))
            /\ node' = AfterConsensus
            /\ completed' = <<>>
            /\ UNCHANGED app
    /\ UNCHANGED <<request, queueVars, toolVars, agents, total_rounds, round_no, mcp_router, mcp, parallel,
                   entered, r, tasks, tool_budget, start_result, stop_result,
                   events, printed, last_round_banner, apiVars>>

\* ----------------------------- mcp_shutdown -----------------------------
\* a teardown whose try lets the exception of stop() through
Swallowed_OnlySuccess(stop) == stop = "ok"

\* the try/except of _mcp_shutdown: whatever stop() raises is caught
Swallowed(stop) == stop \in {"ok", "raise"}

\* _mcp_shutdown; `stop` is how mcp_router.stop() ended. An exception that
\* left the node would leave the graph and run_debate_streaming with it.
_mcp_shutdown(stop) ==
    /\ Streaming /\ polled
    /\ node = "mcp_shutdown"
    /\ executed' = Append(executed, "mcp_shutdown")
    /\ IF mcp_router # None
       THEN /\ stop_result' = stop
            /\ IF Swallowed(stop)
               THEN /\ mcp_router' = None
                    /\ node' = AfterShutdown
                    /\ polled' = FALSE
                    /\ UNCHANGED app
               ELSE /\ app' = "failed"
                    /\ UNCHANGED <<mcp_router, node, polled>>
       ELSE /\ stop = "ok"
            /\ node' = AfterShutdown
            /\ polled' = FALSE
            /\ UNCHANGED <<mcp_router, stop_result, app>>
    /\ UNCHANGED <<request, queueVars, toolVars, agents, total_rounds, round_no, bus, mcp, parallel, entered,
                   r, tasks, completed, calls, raised, faults, tool_budget,
                   start_result, events, printed, last_round_banner, apiVars>>

\* ------------------------ run_debate_streaming -------------------------
\* run_debate_streaming up to the astream loop: the topic is checked, the
\* router is started when settings.mcp_servers_cmds names servers (an
\* exception of start() leaves the function), the agents are built and the
\* judge vendor is checked, the state is built, run.start is emitted
run_debate_streaming(started) ==
    /\ app = "init"
    /\ IF TopicRejected(request.topic)
       THEN /\ started
            /\ app' = "failed"
            /\ UNCHANGED <<mcp_router, start_result, events>>
       ELSE /\ IF mcp.supplied
               THEN start_result' = (IF started THEN "ok" ELSE "raise")
               ELSE started /\ UNCHANGED start_result
            /\ IF \/ ~started
                  \/ UnknownAgent(request.agents)
                  \/ JudgeVendorRejected(request.judge_vendor)
               THEN /\ app' = "failed"
                    /\ UNCHANGED <<mcp_router, events>>
               ELSE /\ mcp_router' = (IF mcp.supplied THEN "router" ELSE mcp_router)
                    /\ events' = Append(events, RunStart(agents, total_rounds))
                    /\ app' = "running"
    /\ UNCHANGED <<request, queueVars, toolVars, node, agents, total_rounds, round_no, bus, mcp, parallel,
                   entered, r, tasks, completed, executed, calls, raised, faults,
                   tool_budget, stop_result, polled, printed, last_round_banner,
                   apiVars>>

\* the body of the astream loop, run for each value the graph yields
project ==
    /\ Streaming /\ ~polled
    /\ LET p == Project(history(bus), printed, last_round_banner, events) IN
       /\ events' = p.events
       /\ printed' = p.printed
       /\ last_round_banner' = p.last_round_banner
    /\ polled' = TRUE
    /\ UNCHANGED <<node, request, queueVars, toolVars, agents, total_rounds, round_no, mcp_router, bus, mcp,
                   parallel, entered, r, tasks, completed, executed, calls,
                   raised, faults, tool_budget, start_result, stop_result, app,
                   apiVars>>

\* run_debate_streaming after the loop: the router it started is stopped
\* (MCPToolRouter.stop() catches what its sessions raise), run.end is emitted
run_debate_streaming_end ==
    /\ Streaming /\ polled
    /\ node = "END"
    /\ events' = Append(events, RunEnd)
    /\ app' = "ended"
    /\ UNCHANGED <<node, request, queueVars, toolVars, agents, total_rounds, round_no, mcp_router, bus, mcp,
                   parallel, entered, r, tasks, completed, executed, calls,
                   raised, faults, tool_budget, start_result, stop_result,
                   polled, printed, last_round_banner, apiVars>>

\* a runner with no finally clause: the None follows a run that returned
runner_NoFinally ==
    /\ app \in {"ended", "failed"}
    /\ events' = (IF app = "failed" THEN Append(events, ErrorEvent)
                  ELSE Append(events, Sentinel))
    /\ app' = "done"
    /\ UNCHANGED <<request, queueVars, toolVars, node, agents, total_rounds, round_no, mcp_router, bus, mcp,
                   parallel, entered, r, tasks, completed, executed, calls,
                   raised, faults, tool_budget, start_result, stop_result,
                   polled, printed, last_round_banner, apiVars>>

\* runner of api_debate_stream: the except and finally clauses around
\* asyncio.run(run_debate_streaming(...))
runner ==
    /\ app \in {"ended", "failed"}
    /\ events' = (IF app = "failed" THEN Append(events, ErrorEvent) ELSE events)
                     \o <<Sentinel>>
    /\ app' = "done"
    /\ UNCHANGED <<node, request, queueVars, toolVars, agents, total_rounds, round_no, mcp_router, bus, mcp,
                   parallel, entered, r, tasks, completed, executed, calls,
                   raised, faults, tool_budget, start_result, stop_result,
                   polled, printed, last_round_banner, apiVars>>

\* ------------------------------- Next -----------------------------------
\* the steps of the compiled graph
GraphNext ==
    \/ \E started \in BOOLEAN : _mcp_bootstrap(started)
    \/ _analysis_step
    \/ \E i \in 1..Len(tasks), suspends \in BOOLEAN, outcome \in Outcomes :
          run_for_agent_start(i, suspends, outcome)
    \/ \E i \in 1..Len(tasks), outcome \in Outcomes : run_for_agent_resume(i, outcome)
    \/ _analysis_return
    \/ _debate_round
    \/ \E i \in 1..Len(tasks), suspends \in BOOLEAN, outcome \in Outcomes :
          draft_start(i, suspends, outcome)
    \/ \E i \in 1..Len(tasks), outcome \in Outcomes : draft_resume(i, outcome)
    \/ _debate_round_publish
    \/ \E outcome \in Outcomes : _consensus(outcome)
    \/ \E stop \in Outcomes : _mcp_shutdown(stop)

Next ==
    \/ \E started \in BOOLEAN : run_debate_streaming(started)
    \/ GraphNext
    \/ project
    \/ run_debate_streaming_end
    \/ runner

Spec == Init /\ [][Next]_vars

\* the run under the scheduling the program relies on: every awaited call
\* returns or raises in the end, the event loop runs a task that is ready,
\* and the runner thread is not starved
SpecLive == Init /\ [][Next]_vars /\ WF_vars(Next)

\* ------------------- the bus and the projector alone --------------------
\* the messages a caller of the bus publishes: one of every kind, with the
\* round numbers the orchestrator gives the kinds, two of them with tool calls
SearchEvidence == [server |-> "web", tool |-> "search"]

BusMessages ==
    { DebateMessage("system", s_orchestrator, 0, NotSetNote, <<>>, NoList, None),
      DebateMessage("plan", n_Planner, 0, "text", <<>>, NoList, None),
      DebateMessage("analysis", n_OpenAI, 0, "text", <<>>, NoList, None),
      DebateMessage("argument", n_OpenAI, 1, "text", <<SearchEvidence, Evidence>>,
                    SomeList(<<n_Claude>>), None),
      DebateMessage("rebuttal", n_Claude, 2, "text", <<Evidence>>,
                    SomeList(<<n_OpenAI>>), None),
      DebateMessage("final_conclusion", n_Judge, 2, "[error]", <<>>, NoList, "error") }

InitBus ==
    /\ request = GoodRequest(IntRounds(MaxRounds))
    /\ router = MCPToolRouter(<<>>, FALSE)
    /\ allowlist = <<>>
    /\ ops = <<>>
    /\ node = "END"
    /\ agents = <<ModelAgent(n_OpenAI), ModelAgent(n_Claude), JudgeAgent>>
    /\ total_rounds = MaxRounds
    /\ round_no = 1
    /\ mcp \in {c \in McpConfigs : ~c.supplied /\ ~c.available}
    /\ mcp_router = None
    /\ bus = <<>>
    /\ parallel = TRUE
    /\ entered = FALSE
    /\ r = 0
    /\ tasks = <<>>
    /\ completed = <<>>
    /\ executed = <<>>
    /\ calls = <<>>
    /\ raised = 0
    /\ faults = {}
    /\ tool_budget = [k \in 1..Len(agents) |-> MaxBudget]
    /\ start_result = None
    /\ stop_result = None
    /\ app = "bus"
    /\ events = <<>>
    /\ polled = TRUE
    /\ printed = 0
    /\ last_round_banner = NoBanner
    /\ returned = NoRead
    /\ sent = <<>>
    /\ taken = 0
    /\ yielded = <<>>

orchestratorVars ==
    <<request, queueVars, toolVars, node, agents, total_rounds, round_no, mcp_router, mcp,
      parallel, entered, r, tasks, completed, executed, calls, raised, faults, tool_budget,
      start_result, stop_result, app, polled>>

\* bus.publish(m); a handed-out list that is the list of the bus grows with it
bus_publish(m) ==
    /\ Len(bus) < MaxPublishes
    /\ bus' = publish(bus, m)
    /\ sent' = Append(sent, m)
    /\ returned' = IF returned.shared THEN [returned EXCEPT !.value = bus'] ELSE returned
    /\ UNCHANGED <<orchestratorVars, events, printed, last_round_banner>>

\* bus.history()
bus_history ==
    /\ returned' = [op |-> "history", arg |-> 0, value |-> history_list(bus).value,
                    shared |-> history_list(bus).shared, at |-> Len(sent)]
    /\ UNCHANGED <<orchestratorVars, bus, sent, events, printed, last_round_banner>>

\* bus.history_upto_round(rr)
bus_history_upto_round(rr) ==
    /\ returned' = [op |-> "history_upto_round", arg |-> rr,
                    value |-> history_upto_round(bus, rr), shared |-> FALSE,
                    at |-> Len(sent)]
    /\ UNCHANGED <<orchestratorVars, bus, sent, events, printed, last_round_banner>>

\* bus.tail(n)
bus_tail(n) ==
    /\ returned' = [op |-> "tail", arg |-> n, value |-> tail(bus, n),
                    shared |-> FALSE, at |-> Len(sent)]
    /\ UNCHANGED <<orchestratorVars, bus, sent, events, printed, last_round_banner>>

\* the body of the astream loop of run_debate_streaming, run on the bus as
\* it stands
bus_poll ==
    /\ printed < Len(bus)
    /\ LET p == Project(history(bus), printed, last_round_banner, events) IN
       /\ events' = p.events
       /\ printed' = p.printed
       /\ last_round_banner' = p.last_round_banner
    /\ UNCHANGED <<orchestratorVars, bus, sent, returned>>

NextBus ==
    \/ \E m \in BusMessages : bus_publish(m)
    \/ bus_history
    \/ \E rr \in 0..(MaxRounds + 1) : bus_history_upto_round(rr)
    \/ \E n \in 0..MaxTail : bus_tail(n)
    \/ bus_poll

SpecBus == InitBus /\ [][NextBus]_vars

\* ------------------------- the tool router alone -------------------------
\* the server lists a router is built with
ServerLists ==
    { <<argv_stub>>, <<argv_stub, argv_web>>, <<argv_web, argv_stub>>,
      <<argv_stub, argv_empty>>, <<>> }

\* how the close() of the sessions and the aclose() of the stack end
Closings == { <<"ok", "ok">>, <<"raise", "ok">>, <<"ok", "raise">>,
              <<"timeout", "timeout">> }

\* everything but the router, the allowlist and the calls made on them
runVars ==
    <<request, queueVars, node, agents, total_rounds, round_no, mcp_router, bus, mcp, parallel,
      entered, r, tasks, completed, executed, calls, raised, faults, start_result,
      stop_result, app, events, polled, printed, last_round_banner, returned, sent>>

\* no run takes place
NoRun ==
    /\ request = GoodRequest(IntRounds(MaxRounds))
    /\ node = "END"
    /\ agents = <<ModelAgent(n_OpenAI)>>
    /\ total_rounds = MaxRounds
    /\ round_no = 1
    /\ bus = <<>>
    /\ parallel = TRUE
    /\ entered = FALSE
    /\ r = 0
    /\ tasks = <<>>
    /\ completed = <<>>
    /\ executed = <<>>
    /\ calls = <<>>
    /\ raised = 0
    /\ faults = {}
    /\ start_result = None
    /\ stop_result = None
    /\ events = <<>>
    /\ polled = TRUE
    /\ printed = 0
    /\ last_round_banner = NoBanner
    /\ returned = NoRead
    /\ sent = <<>>
    /\ taken = 0
    /\ yielded = <<>>

InitRouter ==
    /\ NoRun
    /\ app = "router"
    /\ router \in {MCPToolRouter(servers_argv, sdk) :
                      servers_argv \in ServerLists, sdk \in BOOLEAN}
    /\ allowlist = <<>>
    /\ ops = <<>>
    /\ mcp \in {c \in McpConfigs : ~c.supplied /\ ~c.available}
    /\ mcp_router = None
    /\ tool_budget = <<MaxBudget>>

\* a call made on the router, how it ended and the router it left
RouterOp(op, arg, ended) ==
    [op |-> op, arg |-> arg, result |-> ended.result, router |-> ended.router]

\* await router.start()
mcp_start(connect) ==
    /\ app = "router"
    /\ Len(ops) < MaxOps
    /\ LET ended == router_start(router, connect) IN
       /\ router' = ended.router
       /\ ops' = Append(ops, RouterOp("start", <<connect>>, ended))
    /\ UNCHANGED <<runVars, allowlist, tool_budget>>

\* await router.stop()
mcp_stop(close, aclose) ==
    /\ app = "router"
    /\ Len(ops) < MaxOps
    /\ LET ended == router_stop(router, close, aclose) IN
       /\ router' = ended.router
       /\ ops' = Append(ops, RouterOp("stop", <<close, aclose>>, ended))
    /\ UNCHANGED <<runVars, allowlist, tool_budget>>

NextRouter ==
    \/ \E connect \in Outcomes : mcp_start(connect)
    \/ \E c \in Closings : mcp_stop(c[1], c[2])

SpecRouter == InitRouter /\ [][NextRouter]_vars

\* ------------------------- an agent's tools alone ------------------------
\* the routers an agent is handed: started with the stub, started with the
\* stub and a stdio server, never started
HandedRouters ==
    { router_start(MCPToolRouter(<<argv_stub>>, TRUE), "ok").router,
      router_start(MCPToolRouter(<<argv_stub, argv_web>>, TRUE), "ok").router,
      MCPToolRouter(<<argv_stub>>, TRUE) }

\* the allowlists an agent is built with
Allowlists == { <<>>, <<k_echo>>, <<k_search, k_echo>>, <<k_other>> }

\* the keys an agent asks for
ToolKeys == { k_echo, k_search, k_other }

\* one agent, built with the router or without it (mcp.supplied), with
\* an allowlist and a budget, called with a context that holds the router
\* or none (mcp_router)
InitAgent ==
    /\ NoRun
    /\ app = "agent"
    /\ router \in HandedRouters
    /\ allowlist \in Allowlists
    /\ ops = <<>>
    /\ mcp \in {c \in McpConfigs : c.available /\ c.servers}
    /\ mcp_router \in {None, "router"}
    /\ tool_budget \in {<<b>> : b \in (-1)..MaxBudget}

\* await agent.maybe_call_tool(tool_key, ctx)
agent_maybe_call_tool(tool_key, outcome) ==
    /\ app = "agent"
    /\ Len(ops) < MaxCalls
    /\ LET effective == get_effective_router(IF mcp.supplied THEN "router" ELSE None,
                                             mcp_router)
           called == maybe_call_tool(effective, allowlist, tool_budget[1], router,
                                     tool_key, outcome)
       IN  /\ called.invocations = 0 => outcome = "ok"
           /\ tool_budget' = <<called.budget>>
           /\ ops' = Append(ops, [op |-> "maybe_call_tool", arg |-> <<tool_key>>,
                                  was |-> tool_budget[1], result |-> called.result,
                                  budget |-> called.budget,
                                  invocations |-> called.invocations])
    /\ UNCHANGED <<request, queueVars, node, agents, total_rounds, round_no, mcp_router, bus, mcp,
                   parallel, entered, r, tasks, completed, executed, calls, raised,
                   faults, start_result, stop_result, app, events, polled, printed,
                   last_round_banner, returned, sent, router, allowlist>>

NextAgent == \E tool_key \in ToolKeys, outcome \in Outcomes :
                agent_maybe_call_tool(tool_key, outcome)

SpecAgent == InitAgent /\ [][NextAgent]_vars


\* ------------------ the queue between runner and event_stream ------------
\* The engine thread puts items on the queue while the generator of the
\* response takes them off; `events` is what has been put, the queue holds
\* the items after the first `taken`.
MaxEmits == 3

\* events a run may emit, among them tool events with their result
ToolResultEvent(result) ==
    [type |-> "tool", src |-> 1, agent |-> n_OpenAI,
     tool |-> <<"local-stub", ":", "echo">>, result |-> result]
QueueEvents ==
    {[type |-> "system", src |-> 1], ToolResultEvent("dict"), ToolResultEvent(SdkObject)}

\* the thread of runner has been started, run_debate_streaming is under way
InitQueue ==
    /\ NoRun
    /\ app = "running"
    /\ router = MCPToolRouter(<<>>, FALSE)
    /\ allowlist = <<>>
    /\ ops = <<>>
    /\ mcp \in {c \in McpConfigs : ~c.supplied /\ ~c.available}
    /\ mcp_router = None
    /\ tool_budget = <<MaxBudget>>

producerVars ==
    <<request, toolVars, node, agents, total_rounds, round_no, mcp_router, bus, mcp,
      parallel, entered, r, tasks, completed, executed, calls, raised, faults,
      tool_budget, start_result, stop_result, polled, printed, last_round_banner,
      returned, sent>>

\* emit(evt): q.put(evt)
emit(evt) ==
    /\ app = "running"
    /\ Len(events) < MaxEmits
    /\ events' = Append(events, evt)
    /\ UNCHANGED <<producerVars, app, queueVars>>

\* asyncio.run(run_debate_streaming(...)) returns, or raises
run_debate_streaming_exit(outcome) ==
    /\ app = "running"
    /\ app' = (IF outcome = "ok" THEN "ended" ELSE "failed")
    /\ UNCHANGED <<producerVars, events, queueVars>>

\* event_stream is started: it yields the opening comment
event_stream_start ==
    /\ yielded = <<>>
    /\ yielded' = <<StartFrame>>
    /\ UNCHANGED <<producerVars, app, events, taken>>

\* the generator has yielded the done event and left its loop
Terminated == yielded # <<>> /\ yielded[Len(yielded)] = DoneFrame

\* a consumer that takes the newest item of the queue
event_stream_next_NewestFirst ==
    /\ yielded # <<>> /\ ~Terminated
    /\ taken < Len(events)
    /\ taken' = taken + 1
    /\ yielded' = Append(yielded, FrameOf(events[Len(events)]))
    /\ UNCHANGED <<producerVars, app, events>>

\* one turn of the loop of event_stream: q.get() blocks while the queue is
\* empty and hands out its oldest item, for which a frame is yielded
event_stream_next ==
    /\ yielded # <<>> /\ ~Terminated
    /\ taken < Len(events)
    /\ taken' = taken + 1
    /\ yielded' = Append(yielded, FrameOf(events[taken + 1]))
    /\ UNCHANGED <<producerVars, app, events>>

NextQueue ==
    \/ \E evt \in QueueEvents : emit(evt)
    \/ \E outcome \in Outcomes : run_debate_streaming_exit(outcome)
    \/ runner
    \/ event_stream_start
    \/ event_stream_next

\* both threads are scheduled: the runner thread runs to its end, the
\* generator is iterated by the server for as long as it yields
SpecQueue ==
    /\ InitQueue /\ [][NextQueue]_vars
    /\ WF_vars(\E outcome \in Outcomes : run_debate_streaming_exit(outcome))
    /\ WF_vars(runner)
    /\ WF_vars(event_stream_start)
    /\ WF_vars(event_stream_next)



\* ============================ properties ================================
\* helpers to speak about sequences
Positions(seq, P(_)) == {k \in 1..Len(seq) : P(seq[k])}
CountIf(seq, P(_)) == Cardinality(Positions(seq, P))
Last(seq) == seq[Len(seq)]
Names(as) == [k \in 1..Len(as) |-> as[k].name]
Authors(msgs) == [k \in 1..Len(msgs) |-> msgs[k].agent]
Identity(n) == [k \in 1..n |-> k]

IsRoundMsg(m) == m.type \in {"argument", "rebuttal"}
IsAnalysis(m) == m.type = "analysis"
IsConclusion(m) == m.type = "final_conclusion"
Rounds(msgs) == {msgs[k].round : k \in Positions(msgs, IsRoundMsg)}
Executions(n) == CountIf(executed, LAMBDA e : e = n)

\* the bus messages of one debate round, in bus order
RoundMsgs(msgs, rr) == SelectSeq(msgs, LAMBDA m : IsRoundMsg(m) /\ m.round = rr)

PhaseRank(n) ==
    CASE n = "mcp_bootstrap" -> 1
      [] n = "analyses" -> 2
      [] n = "debate_round" -> 3
      [] n = "consensus" -> 4
      [] n = "mcp_shutdown" -> 5

\* C1: the phases run in the order Bootstrap, Analysis, one or more
\* DebateRound, Consensus, Teardown: the first phase is Bootstrap, every
\* phase is followed by the next one in that order, only DebateRound may
\* follow itself, and the graph ends right after Teardown and only then.
C1_PhaseOrder ==
    /\ executed # <<>> => executed[1] = "mcp_bootstrap"
    /\ \A k \in 1..(Len(executed) - 1) :
          \/ executed[k] = "debate_round" /\ executed[k + 1] = "debate_round"
          \/ PhaseRank(executed[k + 1]) = PhaseRank(executed[k]) + 1
    /\ node = "END" <=> (executed # <<>> /\ Last(executed) = "mcp_shutdown")
    /\ node = "END" => ~ENABLED GraphNext

C1_Witness ==
    /\ node = "END"
    /\ Executions("debate_round") >= 2

\* C2: at the end of a run with total_rounds = R >= 0 and at least one
\* debater, DebateRound has run exactly R times and the round numbers of
\* the Argument/Rebuttal messages in the bus are exactly 1..R.
C2_RoundsExactlyTotal ==
    (node = "END" /\ ActiveAgents(agents) # <<>>) =>
        /\ Executions("debate_round") = total_rounds
        /\ Rounds(bus) = 1..total_rounds

\* C3: with total_rounds = 0 the phase after Analysis is Consensus, no
\* DebateRound runs and the bus holds no Argument or Rebuttal message.
C3_ZeroRoundsSkipDebate ==
    total_rounds = 0 =>
        /\ Executions("debate_round") = 0
        /\ \A k \in 1..(Len(executed) - 1) :
              executed[k] = "analyses" => executed[k + 1] = "consensus"
        /\ Rounds(bus) = {}

\* C4: whatever a step of a debate round appends to the bus carries the
\* round counter the phase started with, and is an Argument exactly when
\* that round is 1 and a Rebuttal exactly when it is greater than 1, for
\* drafts that returned and drafts that raised alike.
C4_RoundAndKind ==
    [][(node = "debate_round" /\ entered) =>
          /\ r = round_no
          /\ \A k \in (Len(bus) + 1)..Len(bus') :
                /\ bus'[k].round = round_no
                /\ bus'[k].type = "argument" <=> round_no = 1
                /\ bus'[k].type = "rebuttal" <=> round_no > 1]_vars

C4_Witness ==
    /\ \E k \in 1..Len(bus) :
          bus[k].type = "rebuttal" /\ bus[k].status = "error" /\ bus[k].round = 2
    /\ \E k \in 1..Len(bus) :
          bus[k].type = "argument" /\ bus[k].status = None /\ bus[k].round = 1

\* C5: the messages of every finished debate round stand in the bus in the
\* order of the participating agents in the agent list, one per agent,
\* whatever the order in which the drafts completed.
C5_RoundPublishOrder ==
    \A rr \in 1..(round_no - 1) :
        Authors(RoundMsgs(bus, rr)) = Names(ActiveAgents(agents))

C5_Witness ==
    /\ node \in {"debate_round", "consensus"}
    /\ ~entered
    /\ round_no = 3
    /\ Len(completed) >= 2
    /\ completed # Identity(Len(completed))
    /\ Authors(RoundMsgs(bus, 2)) = Names(ActiveAgents(agents))

\* position of the first agent of the list with the given name
AgentIndex(name) == CHOOSE k \in 1..Len(agents) :
                        /\ agents[k].name = name
                        /\ \A j \in 1..(k - 1) : agents[j].name # name

AnalysisOver == \E k \in 1..Len(executed) : PhaseRank(executed[k]) > 2
Started(t) == t.st \in {"awaiting", "done"}

\* C6: in concurrent mode the analysis messages stand in the bus in
\* agent-list order whatever the order in which the analysis calls
\* complete, and none is published while a task of the fan-out is still
\* to complete.
C6_AnalysisListOrder ==
    parallel =>
        /\ \A i, j \in Positions(bus, IsAnalysis) :
              i < j => AgentIndex(bus[i].agent) < AgentIndex(bus[j].agent)
        /\ (node = "analyses" /\ entered /\ ~Finished(tasks)) =>
              Positions(bus, IsAnalysis) = {}

\* C7: while a debate round r is drafting, every draft that has read the
\* bus has read the very transcript the bus still holds, which has no
\* message of round r (or later): nothing is appended before the last
\* draft has completed.
C7_FrozenTranscript ==
    (node = "debate_round" /\ entered) =>
        /\ r >= 1
        /\ \A k \in 1..Len(bus) : bus[k].round < r
        /\ \A i \in 1..Len(tasks) : Started(tasks[i]) => tasks[i].seen = bus

C7_Witness ==
    /\ node = "debate_round" /\ entered /\ r = 2
    /\ \E i, j \in 1..Len(tasks) :
          /\ j < i
          /\ tasks[i].st = "done"
          /\ tasks[j].st = "awaiting"
          /\ tasks[j].seen # <<>>

TranscriptByPhase ==
    /\ \A i \in Positions(bus, IsAnalysis), j \in Positions(bus, IsRoundMsg) : i < j
    /\ \A i, j \in Positions(bus, IsRoundMsg) : i < j => bus[i].round <= bus[j].round
    /\ \A rr \in Rounds(bus), k \in 1..Len(agents) :
          agents[k].participates =>
              CountIf(bus, LAMBDA m : IsRoundMsg(m) /\ m.round = rr
                                     /\ m.agent = agents[k].name) = 1
    /\ \A j \in Positions(bus, IsRoundMsg) :
          \E k \in 1..Len(agents) : agents[k].participates /\ agents[k].name = bus[j].agent
    /\ CountIf(bus, IsConclusion) = 1
    /\ IsConclusion(Last(bus))
    /\ (\E k \in 1..Len(agents) : Lower(agents[k].name) = s_judge) =>
          Lower(Last(bus).agent) = s_judge

\* the scenario of C9: 3 participating agents and 1 judge, total_rounds = 2
Scenario ==
    /\ Len(agents) = 4
    /\ Len(ActiveAgents(agents)) = 3
    /\ \E k \in 1..Len(agents) : ~agents[k].participates /\ Lower(agents[k].name) = s_judge
    /\ total_rounds = 2

ScenarioRounds ==
    /\ CountIf(bus, LAMBDA m : m.type = "argument" /\ m.round = 1) = 3
    /\ CountIf(bus, LAMBDA m : m.type = "rebuttal" /\ m.round = 2) = 3
    /\ CountIf(bus, IsRoundMsg) = 6
    /\ CountIf(bus, IsConclusion) = 1

Nth(S, k) == CHOOSE x \in S : Cardinality({y \in S : y <= x}) = k

\* C10: the history a draft hands to its agent a holds no message of a
\* and none of an author named planner or judge in any letter case, holds
\* every other message of the bus in publish order, and the bus is still
\* what the draft read.
C10_ContextExcludesSelfAndRoles ==
    (node = "debate_round" /\ entered) =>
        \A i \in 1..Len(tasks) :
            Started(tasks[i]) =>
                LET a == tasks[i].agent
                    ctx == tasks[i].ctx
                    others == {k \in 1..Len(bus) :
                                 /\ bus[k].agent # a.name
                                 /\ Lower(bus[k].agent) # s_planner
                                 /\ Lower(bus[k].agent) # s_judge}
                IN  /\ tasks[i].seen = bus
                    /\ \A k \in 1..Len(ctx) :
                          /\ ctx[k].agent # a.name
                          /\ Lower(ctx[k].agent) \notin {s_planner, s_judge}
                    /\ Len(ctx) = Cardinality(others)
                    /\ \A k \in 1..Len(ctx) : ctx[k] = bus[Nth(others, k)]

C10_Witness ==
    /\ node = "debate_round" /\ entered /\ r = 2
    /\ \E i \in 1..Len(tasks) :
          /\ Started(tasks[i])
          /\ tasks[i].ctx # <<>>
          /\ \E k \in 1..Len(bus) : bus[k].agent = tasks[i].agent.name
          /\ \E k \in 1..Len(bus) : Lower(bus[k].agent) \in {s_planner, s_judge}
          /\ Len(tasks[i].ctx) < Len(bus)

\* the recipients of a message, as a list of names
Recipients(m) == m.to[1]

\* the agents that carry a role name are the ones that do not debate
RolesSitOut ==
    \A k \in 1..Len(agents) :
        Lower(agents[k].name) \in {s_planner, s_judge} => ~agents[k].participates

\* C11: the recipients of every message of a debate round are, in
\* agent-list order, the names of the participating agents whose name in
\* lower case is neither the sender's nor planner nor judge; where the
\* agents named planner or judge do not participate, that is the list of
\* all participating agents other than the sender, and it holds neither
\* the sender nor a planner nor a judge.
C11_RecipientsAreThePeers ==
    \A k \in 1..Len(bus) :
        IsRoundMsg(bus[k]) =>
            LET peers == {j \in 1..Len(agents) :
                            /\ agents[j].participates
                            /\ Lower(agents[j].name) # Lower(bus[k].agent)
                            /\ Lower(agents[j].name) \notin {s_planner, s_judge}}
                others == {j \in 1..Len(agents) :
                             agents[j].participates /\ agents[j].name # bus[k].agent}
                to == Recipients(bus[k])
            IN  /\ bus[k].to # NoList
                /\ Len(to) = Cardinality(peers)
                /\ \A j \in 1..Len(to) : to[j] = agents[Nth(peers, j)].name
                /\ \A j \in 1..Len(to) :
                      /\ to[j] # bus[k].agent
                      /\ Lower(to[j]) \notin {s_planner, s_judge}
                /\ RolesSitOut =>
                      /\ Len(to) = Cardinality(others)
                      /\ \A j \in 1..Len(to) : to[j] = agents[Nth(others, j)].name

C11_Witness ==
    /\ RolesSitOut
    /\ \E k \in 1..Len(agents) : ~agents[k].participates /\ Lower(agents[k].name) = s_judge
    /\ \E k \in 1..Len(bus) :
          /\ bus[k].type = "rebuttal"
          /\ Recipients(bus[k]) = <<n_OpenAI, n_Gemini>>

\* the agents named judge in some letter case, by position in the list
Judges == {k \in 1..Len(agents) : Lower(agents[k].name) = s_judge}
ConsensusCalls == SelectSeq(calls, LAMBDA c : c.op = "propose_consensus")
Conclusions == SelectSeq(bus, IsConclusion)

\* C12: once the consensus phase has run, propose_consensus has been
\* invoked exactly once, on the first agent of the list named judge in any
\* letter case or on the first agent when there is none, and the bus holds
\* exactly one Conclusion, authored by that agent with round total_rounds;
\* before the phase there is no such call and no Conclusion. (A list with
\* no agent has no first agent: see C30.)
C12_OneFinaliser ==
    LET chosen == IF Judges = {} THEN 1 ELSE Nth(Judges, 1) IN
    IF Executions("consensus") = 0 \/ agents = <<>>
    THEN ConsensusCalls = <<>> /\ Conclusions = <<>>
    ELSE /\ Executions("consensus") = 1
         /\ Len(ConsensusCalls) = 1
         /\ ConsensusCalls[1].agent = agents[chosen].name
         /\ Len(Conclusions) = 1
         /\ Conclusions[1].agent = agents[chosen].name
         /\ Conclusions[1].round = total_rounds
         /\ Conclusions[1].type = "final_conclusion"

C12_Witness ==
    /\ node = "END"
    /\ Judges # {} /\ 1 \notin Judges
    /\ Len(agents) = 4
    /\ total_rounds = 2
    /\ Len(Conclusions) = 1
    /\ Conclusions[1].agent = n_Judge

\* the kind of message the phase of a capability call publishes
KindOf(c) ==
    CASE c.op = "analysis" -> "analysis"
      [] c.op = "debate_turn" -> (IF c.round = 1 THEN "argument" ELSE "rebuttal")
      [] c.op = "propose_consensus" -> "final_conclusion"

\* the bus messages of the agent and phase of a capability call
MsgsFor(c) ==
    SelectSeq(bus, LAMBDA m : m.agent = c.agent /\ m.type = KindOf(c) /\ m.round = c.round)

\* whether the message a call leads to is due: an analysis or a conclusion
\* once the call is over, a draft once its round has been published
Due(c) ==
    CASE c.op = "analysis" ->
            ~(node = "analyses" /\ \E i \in 1..Len(tasks) :
                  tasks[i].agent.name = c.agent /\ tasks[i].st = "awaiting")
      [] c.op = "debate_turn" -> c.round < round_no
      [] c.op = "propose_consensus" -> TRUE

\* C13: in every phase a capability call that raised leaves exactly one
\* message of its agent and phase, with status "error" and the kind of the
\* phase; every other call of the run leaves its one message too; and
\* with a call having raised the graph is never stuck short of END: some
\* step of the graph or of the loop around it can be taken.
C13_RaiseBecomesErrorMessage ==
    /\ \A k \in 1..Len(calls) :
          Due(calls[k]) =>
              /\ Len(MsgsFor(calls[k])) = 1
              /\ MsgsFor(calls[k])[1].status = "error" <=> calls[k] \in faults
    /\ \A f \in faults : \E k \in 1..Len(calls) : calls[k] = f
    /\ (faults # {} /\ Streaming /\ node # "END") => ENABLED (GraphNext \/ project)
    /\ (faults # {} /\ node = "END") =>
          /\ Executions("mcp_shutdown") = 1
          /\ \A k \in 1..Len(calls) : Due(calls[k])

C13_Witness ==
    /\ node = "END"
    /\ \E f \in faults :
          /\ f.op = "debate_turn" /\ f.round = 1
          /\ Len(MsgsFor(f)) = 1 /\ MsgsFor(f)[1].status = "error"
          /\ CountIf(bus, LAMBDA m : m.type = "argument" /\ m.status # "error") >= 1
          /\ CountIf(bus, IsConclusion) = 1

IsSystem(m) == m.type = "system"
ToolEventsOut == SelectSeq(events, LAMBDA e : e.type = "tool")
Received(type) == \E k \in 1..Len(events) : events[k].type = type

\* C14: once the start of the configured tool router has raised, the run
\* is not abandoned and holds no router, no tool event is emitted, the bus
\* holds from Bootstrap on exactly one System message, which reports the
\* failure, and when the stream is closed the graph has reached END and
\* run.end has been put on the stream.
C14_InitFailureTolerated ==
    start_result = "raise" =>
        /\ app # "failed"
        /\ mcp_router = None
        /\ ToolEventsOut = <<>>
        /\ CountIf(bus, IsSystem) = 1
        /\ CountIf(bus, LAMBDA m : IsSystem(m) /\ m.content = FailedNote) = 1
        /\ Received(None) => (node = "END" /\ Received("run.end"))

\* C15: Teardown has run at most once; once it has, the graph is at END and
\* the run state holds no router, whether stop() returned or raised, and a
\* router is held until then by every run that was given or started one.
C15_TeardownReleasesRouter ==
    /\ Executions("mcp_shutdown") <= 1
    /\ Executions("mcp_shutdown") = 1 => (node = "END" /\ mcp_router = None)
    /\ stop_result # None => Executions("mcp_shutdown") = 1
    /\ (Streaming /\ node = "mcp_shutdown") => ENABLED (GraphNext \/ project)
    /\ (Streaming /\ start_result = "ok" /\ Executions("mcp_shutdown") = 0) =>
          mcp_router = "router"

C15_Witness ==
    /\ stop_result = "raise"
    /\ node = "END"
    /\ mcp_router = None
    /\ app = "done"
    /\ Received("run.end")

IsPrefix(s1, s2) == Len(s1) <= Len(s2) /\ SubSeq(s2, 1, Len(s1)) = s1

\* C16: the list a history() handed out holds exactly the messages
\* published before the call, in publish order, and still holds exactly
\* those after any later publish.
C16_HistorySnapshot ==
    returned.op = "history" =>
        /\ returned.at <= Len(sent)
        /\ returned.value = SubSeq(sent, 1, returned.at)

C16_Witness ==
    /\ returned.op = "history"
    /\ returned.at = 2
    /\ Len(sent) = 3
    /\ Len(returned.value) = 2

\* C17: every step leaves the messages the bus held where they were: the
\* old sequence is a prefix of the new one, a publish adds the published
\* message at the end and nothing else, and a step that publishes nothing
\* (history, history_upto_round, tail, a turn of the projector) leaves the
\* sequence as it was.
C17_AppendOnly ==
    [][/\ IsPrefix(bus, bus')
       /\ sent' = sent => bus' = bus
       /\ sent' # sent => bus' = Append(bus, Last(sent'))]_vars

C17_Witness ==
    /\ Len(bus) = 3
    /\ returned.op = "tail" /\ returned.arg = 1 /\ returned.at = 2
    /\ printed = 1

\* C18: what history_upto_round(0) returned holds no Argument, Rebuttal or
\* Conclusion, and what history_upto_round(r) returned holds no message of
\* a round greater than r, for the bus contents whose Analysis, System and
\* plan messages carry round 0.
C18_UptoRoundBounds ==
    returned.op = "history_upto_round" =>
        /\ returned.arg = 0 =>
              \A k \in 1..Len(returned.value) :
                  returned.value[k].type \notin {"argument", "rebuttal", "final_conclusion"}
        /\ \A k \in 1..Len(returned.value) : returned.value[k].round <= returned.arg

C18_Witness ==
    /\ returned.op = "history_upto_round"
    /\ returned.arg = 1
    /\ returned.at = Len(bus)
    /\ \E k \in 1..Len(bus) : bus[k].round = 2
    /\ \E k \in 1..Len(returned.value) : returned.value[k].round = 1
    /\ Len(returned.value) < Len(bus)

\* the events made from bus message i, in the order they were emitted
EventsOf(i) == SelectSeq(events, LAMBDA e : e.src = i)
IsPrimary(e) == e.type \in {"message", "conclusion", "system"}
IsTool(e) == e.type = "tool"

\* C19: the events stand in the order of the bus messages they were made
\* from; among the events of one message the message, conclusion or system
\* event comes before every tool event, and the tool events are one per
\* recorded tool call, naming server:tool of the calls in call order.
C19_EventsFollowBusOrder ==
    /\ \A j, k \in 1..Len(events) : j < k => events[j].src <= events[k].src
    /\ \A k \in 1..Len(events) : events[k].src \in 0..printed
    /\ \A i \in 1..printed :
          LET evs == EventsOf(i)
              tools == SelectSeq(evs, IsTool)
              m == bus[i]
          IN  /\ CountIf(evs, IsPrimary) <= 1
              /\ \A j, k \in 1..Len(evs) :
                    (IsPrimary(evs[j]) /\ IsTool(evs[k])) => j < k
              /\ Len(tools) = Len(m.tool_calls)
              /\ \A k \in 1..Len(tools) :
                    tools[k].tool = <<m.tool_calls[k].server, ":", m.tool_calls[k].tool>>

C19_Witness ==
    /\ printed = 3
    /\ \E i \in 2..3 :
          /\ Len(bus[i].tool_calls) = 2
          /\ Len(SelectSeq(EventsOf(i), IsTool)) = 2
          /\ CountIf(EventsOf(i), IsPrimary) = 1
    /\ \E i \in 1..2 : Len(bus[i].tool_calls) = 1

RoundStarts == SelectSeq(events, LAMBDA e : e.type = "round.start")

\* the place in the bus of the first Argument/Rebuttal of round rr
FirstOfRound(rr) ==
    Nth({i \in 1..Len(bus) : IsRoundMsg(bus[i]) /\ bus[i].round = rr}, 1)

\* C20: the round.start events carry strictly increasing rounds, hence no
\* round twice; the rounds announced are exactly the rounds of the
\* Argument/Rebuttal messages projected so far; and every round.start is
\* followed at once by the message event of the first message of its round.
C20_RoundStartOncePerRound ==
    /\ \A j, k \in 1..Len(RoundStarts) :
          j < k => RoundStarts[j].round < RoundStarts[k].round
    /\ {RoundStarts[k].round : k \in 1..Len(RoundStarts)}
          = {bus[i].round : i \in {j \in 1..printed : IsRoundMsg(bus[j])}}
    /\ \A k \in 1..Len(events) :
          events[k].type = "round.start" =>
              /\ k < Len(events)
              /\ events[k + 1].type = "message"
              /\ events[k + 1].phase \in {"argument", "rebuttal"}
              /\ events[k + 1].round = events[k].round
              /\ events[k + 1].src = FirstOfRound(events[k].round)
              /\ events[k].src = FirstOfRound(events[k].round)

C20_Witness ==
    /\ app = "done"
    /\ Len(RoundStarts) = 2
    /\ RoundStarts[1].round = 1 /\ RoundStarts[2].round = 2
    /\ CountIf(events, LAMBDA e : e.type = "message" /\ e.phase = "rebuttal") >= 2
    /\ ToolEventsOut # <<>>

\* the type of the event a message of a given kind is projected into
EventTypeOf(m) ==
    CASE m.type \in {"analysis", "argument", "rebuttal"} -> "message"
      [] m.type = "final_conclusion" -> "conclusion"
      [] m.type = "system" -> "system"

\* C21: the cursor of the projector never decreases and never exceeds the
\* length of the bus; the messages below the cursor have each been made
\* into exactly one message, conclusion or system event, of the type of
\* their kind and with their author and content, the messages above it into
\* no event; and once run.end is emitted the cursor is the length of the bus.
C21_CursorProjectsOnce ==
    /\ [](/\ printed \in 0..Len(bus)
          /\ \A i \in 1..Len(bus) :
                LET prim == SelectSeq(EventsOf(i), IsPrimary) IN
                IF i <= printed
                THEN /\ Len(prim) = 1
                     /\ prim[1].type = EventTypeOf(bus[i])
                     /\ prim[1].content = bus[i].content
                     /\ prim[1].type # "system" => prim[1].agent = bus[i].agent
                ELSE EventsOf(i) = <<>>
          /\ Received("run.end") => printed = Len(bus))
    /\ [][printed' >= printed]_vars

C21_Witness ==
    /\ Received("run.end")
    /\ printed = Len(bus)
    /\ Len(bus) >= 6
    /\ Received("conclusion") /\ Received("system") /\ Received("round.start")

\* the frames the consumer of the response has received once it has drained
\* the queue
Stream == event_stream(events)
IsDone(f) == f.event = "done"
\* how many data frames with an event of the type it has received
Data(type) ==
    CountIf(Stream, LAMBDA f : f.event = "message" /\ f.data[1].type = type)
\* the run has left run_debate_streaming with an exception: the graph was
\* not started or did not reach its end
RunFailed == app = "done" /\ node # "END"
RunSucceeded == app = "done" /\ node = "END"

Misconfigured ==
    \/ request.topic \in {t_blank, t_placeholder}
    \/ \E k \in 1..Len(request.agents) : request.agents[k] = n_Llama
    \/ request.judge_vendor = v_Mistral
\* nothing of a run has happened: no phase, no message, no run.start
NothingRan == executed = <<>> /\ bus = <<>> /\ ~Received("run.start")

\* C23 as stated, with the absent rounds parameter among the configuration
\* errors: such a request ends with an error event, with no run.start and
\* with nothing published.
C23_ConfigErrorsFatal ==
    (Misconfigured \/ request.rounds.kind = "missing") =>
        /\ NothingRan
        /\ app = "done" => Data("error") = 1

\* C23: a request with a blank or placeholder topic, an unknown agent name
\* or an unsupported judge vendor runs no phase, publishes nothing and emits
\* no run.start, and it ends with one error event; a request whose rounds
\* parameter is absent or no integer is not among them: it is run with
\* total_rounds = 3.
C23_ConfigErrorsFatalButRounds ==
    /\ Misconfigured =>
          /\ NothingRan
          /\ app = "done" => Data("error") = 1 /\ RunFailed
    /\ (~Misconfigured /\ request.rounds.kind # "int") =>
          /\ total_rounds = DefaultRounds
          /\ (app = "done" /\ start_result # "raise") =>
                /\ events[1] = RunStart(agents, DefaultRounds)
                /\ Executions("debate_round") = DefaultRounds

C23_Witness ==
    /\ Misconfigured
    /\ start_result = "ok"
    /\ app = "done"
    /\ Stream = <<StartFrame, DataFrame(ErrorEvent), DoneFrame>>

\* the calls made on the router alone
IsStart(o) == o.op = "start"
IsStop(o) == o.op = "stop"
\* the router before call k
RouterBefore(k) == IF k = 1 THEN MCPToolRouter(router.servers_argv, router.sdk)
                   ELSE ops[k - 1].router

\* C24: a start() that follows a start() leaves the router as the first
\* left it, whether the first returned or raised, and returns; a stop()
\* never raises, whatever the close() of a session or the aclose() of the
\* stack does, and leaves no session and no stack; a stop() that follows a
\* stop() leaves the router as the first left it.
C24_StartStopIdempotent ==
    \A k \in 1..Len(ops) :
       /\ (k > 1 /\ IsStart(ops[k]) /\ IsStart(ops[k - 1])) =>
             /\ ops[k].router = ops[k - 1].router
             /\ ops[k].result = "ok"
       /\ IsStop(ops[k]) =>
             /\ ops[k].result = "ok"
             /\ ops[k].router.sessions = <<>>
             /\ ops[k].router._stack = NoList
             /\ ops[k].router.tools = RouterBefore(k).tools
       /\ (k > 1 /\ IsStop(ops[k]) /\ IsStop(ops[k - 1])) =>
             ops[k].router = ops[k - 1].router

C24_Witness ==
    /\ Len(ops) = 4
    /\ IsStart(ops[1]) /\ ops[1].result = "ok" /\ Len(ops[1].router.sessions) = 2
    /\ IsStart(ops[2])
    /\ IsStop(ops[3]) /\ ops[3].arg = <<"raise", "ok">>
    /\ IsStop(ops[4])

\* C25: the tool budget is per round: in every round an agent that is built
\* with tools and with a budget of at least one gets its tool call, so each
\* of its Argument and Rebuttal messages that is no error message carries it.
C25_BudgetPerRound ==
    (HasTools /\ MaxBudget >= 1) =>
        \A k \in 1..Len(bus) :
           (IsRoundMsg(bus[k]) /\ bus[k].status = None) => Len(bus[k].tool_calls) = 1

\* whether a maybe_call_tool for the key with the budget must be turned
\* down: no router on the agent and none in the context, an empty allowlist,
\* a key that is not on it, or no budget left
TurnedDown(key, budget) ==
    \/ ~mcp.supplied /\ mcp_router = None
    \/ allowlist = <<>>
    \/ \A k \in 1..Len(allowlist) : allowlist[k] # key
    \/ budget <= 0

\* C26: a maybe_call_tool that must be turned down returns None, invokes
\* the router not at all and leaves the budget; any other one takes exactly
\* one off the budget and invokes router.call exactly once, whether that
\* call returns or raises; the budget is changed by nothing else.
C26_MaybeCallToolGuards ==
    /\ \A k \in 1..Len(ops) :
          /\ ops[k].was = (IF k = 1 THEN ops[k].was ELSE ops[k - 1].budget)
          /\ IF TurnedDown(ops[k].arg[1], ops[k].was)
             THEN /\ ops[k].result = None
                  /\ ops[k].invocations = 0
                  /\ ops[k].budget = ops[k].was
             ELSE /\ ops[k].result # None
                  /\ ops[k].invocations = 1
                  /\ ops[k].budget = ops[k].was - 1
    /\ ops # <<>> => tool_budget[1] = Last(ops).budget

C26_Witness ==
    /\ Len(ops) = 2
    /\ ops[1].invocations = 1 /\ ops[1].result = "ValueError" /\ ops[1].was = 1
    /\ ops[2].result = None /\ ops[2].arg = ops[1].arg
    /\ ~mcp.supplied

\* the run_for_agent coroutines that have built their context
Briefed == {i \in 1..Len(tasks) : tasks[i].st \in {"awaiting", "done"}}

\* C27: in the concurrent and in the sequential mode of the analysis phase
\* every agent's analysis context is the same history, so that the two modes
\* can differ in the order of the bus entries only.
C27_SameAnalysisContext ==
    (node = "analyses" /\ entered) =>
        \A i, j \in Briefed : tasks[i].ctx = tasks[j].ctx

\* the step in which a _debate_round execution ends
RoundEnds == node = "debate_round" /\ entered /\ ~entered'

\* C28: the step that ends a DebateRound execution adds exactly one to
\* round_no and leads to DebateRound when the new round_no is at most
\* total_rounds, to Consensus otherwise; no other step changes round_no, and
\* no step changes total_rounds, the topic or the agent list; round_no is
\* one more than the number of DebateRound executions that have ended.
C28_RoundLoop ==
    /\ [][/\ total_rounds' = total_rounds
          /\ agents' = agents
          /\ request'.topic = request.topic
          /\ IF RoundEnds
             THEN /\ round_no' = round_no + 1
                  /\ node' = "debate_round" <=> round_no' <= total_rounds
                  /\ node' = "consensus" <=> round_no' > total_rounds
             ELSE round_no' = round_no]_vars
    /\ [](round_no = 1 + Executions("debate_round")
                       - (IF node = "debate_round" /\ entered THEN 1 ELSE 0))

C28_Witness ==
    /\ node = "END"
    /\ total_rounds = 2
    /\ round_no = 3
    /\ Executions("debate_round") = 2
    /\ ActiveAgents(agents) # <<>>

\* the positions of the bus, as it was when the list was handed out, that
\* a view up to round rr is to hold
Wanted(rr) ==
    {k \in 1..returned.at :
        IF rr = 0
        THEN bus[k].type \in {"analysis", "system", "plan"}
        ELSE /\ bus[k].type \in {"analysis", "argument", "rebuttal",
                                 "final_conclusion", "system", "plan"}
             /\ bus[k].round <= rr}

\* C29: what history_upto_round(r) returned is the bus messages of the
\* wanted kinds (and, for r > 0, of a round up to r), each once, in the
\* order of the bus, and nothing else.
C29_UptoRoundExact ==
    (returned.op = "history_upto_round" /\ returned.arg >= 0) =>
        LET want == Wanted(returned.arg) IN
        /\ Len(returned.value) = Cardinality(want)
        /\ \A j \in 1..Len(returned.value) : returned.value[j] = bus[Nth(want, j)]

C29_Witness ==
    /\ returned.op = "history_upto_round"
    /\ returned.arg = 0
    /\ returned.at = 3
    /\ Len(returned.value) = 2
    /\ returned.value[1].type = "plan"
    /\ bus[2].type = "argument"

\* C30: a run whose agent list is empty is turned away before any phase:
\* no Bootstrap, Analysis or DebateRound runs and nothing is published.
C30_EmptyListRejected ==
    agents = <<>> =>
        /\ Executions("mcp_bootstrap") = 0
        /\ Executions("analyses") = 0
        /\ Executions("debate_round") = 0
        /\ bus = <<>>

\* the rounds are over: the graph has left the round loop
RoundsOver == node \in {"consensus", "mcp_shutdown", "END"}
AtLeastOne(n) == IF n >= 1 THEN n ELSE 1

\* C31: once a run started with round_no = 1 has left the round loop,
\* DebateRound has run exactly max(1, total_rounds) times, round_no is one
\* more, and with a debater in the list the round numbers of the Argument
\* and Rebuttal messages are exactly 1..max(1, total_rounds); before that it
\* has run at most that many times.
C31_AtLeastOneRound ==
    /\ Executions("debate_round") <= AtLeastOne(total_rounds)
    /\ RoundsOver =>
          /\ Executions("debate_round") = AtLeastOne(total_rounds)
          /\ round_no = AtLeastOne(total_rounds) + 1
          /\ ActiveAgents(agents) # <<>> => Rounds(bus) = 1..AtLeastOne(total_rounds)

C31_Witness ==
    /\ node = "END"
    /\ total_rounds = -1
    /\ Executions("debate_round") = 1
    /\ Rounds(bus) = {1}

\* C32: a run with at least one agent whose graph has been started reaches
\* the end of the graph, provided every awaited call returns or raises;
\* so does a run none of whose agents takes part in the debate rounds.
C32_RunTerminates == (Streaming /\ agents # <<>>) ~> (node = "END")

C32_Witness ==
    /\ node = "END"
    /\ agents # <<>>
    /\ ActiveAgents(agents) = <<>>
    /\ total_rounds = 2
    /\ round_no = 3
    /\ Executions("debate_round") = 2

\* the tool calls of agent k that the bus and the drafts under way show
RECURSIVE SumCalls(_)
SumCalls(msgs) ==
    IF msgs = <<>> THEN 0 ELSE Len(Head(msgs).tool_calls) + SumCalls(Tail(msgs))
ToolCallsOf(k) ==
    SumCalls(SelectSeq(bus, LAMBDA m : IsRoundMsg(m) /\ m.agent = agents[k].name))

C34_RouterStoppedOnExit ==
    (app = "done" /\ mcp.supplied /\ start_result = "ok") => stop_result # None

\* the end of the stream has been put on the queue
SentinelPut == \E k \in 1..Len(events) : events[k] = Sentinel
\* the frame that shows item k to the client as it was put
Shown(k) == IF events[k] = Sentinel THEN DoneFrame ELSE DataFrame(events[k])
\* the frame of item k, an event that json.dumps raises on being replaced
\* by the error that reports it
ShownOrReported(k) ==
    IF events[k] = Sentinel THEN DoneFrame
    ELSE IF "result" \in DOMAIN events[k] /\ events[k].result = SdkObject
    THEN DataFrame(SerializeFailed)
    ELSE DataFrame(events[k])
\* what the generator has yielded is the opening comment and one frame for
\* each item it has taken, and it has taken the items in the order of the puts
OneFramePerItem ==
    /\ taken <= Len(events)
    /\ Len(yielded) = (IF yielded = <<>> THEN 0 ELSE taken + 1)
    /\ yielded = <<>> => taken = 0
    /\ \A k \in 1..Len(yielded) : (k = 1) = (yielded[k] = StartFrame)
\* the None is the last item put, and the generator ends on it and only on it
EndsOnSentinel ==
    /\ \A k \in 1..Len(events) : events[k] = Sentinel => k = Len(events)
    /\ Terminated <=> (taken = Len(events) /\ SentinelPut)

\* C35 as stated: under every interleaving of runner and event_stream the
\* frames yielded show the events in the order of the emit calls, each event
\* once and none missing, and the generator has ended only if the None,
\* the last item put, is on the queue.
C35_EventsYieldedAsPut ==
    /\ OneFramePerItem
    /\ EndsOnSentinel
    /\ \A k \in 1..taken : yielded[k + 1] = Shown(k)

\* C35, amended: under every interleaving the generator yields one frame for
\* each item put, in the order of the puts, none twice and none missing; the
\* frame carries the event, or the error "serialize failed" in the place of
\* an event that json.dumps raises on; the None is the last item put, the
\* generator ends when it takes it and not before, and once the None is put
\* the generator does end.
C35_FramesFollowPuts ==
    /\ [](/\ OneFramePerItem
          /\ EndsOnSentinel
          /\ \A k \in 1..taken : yielded[k + 1] = ShownOrReported(k))
    /\ (SentinelPut ~> Terminated)

C35_Witness ==
    /\ Terminated
    /\ Len(events) = MaxEmits + 2
    /\ events[1] = ToolResultEvent(SdkObject)
    /\ events[2] = ToolResultEvent("dict")
    /\ events[MaxEmits + 1] = ErrorEvent
    /\ yielded[2] = DataFrame(SerializeFailed)
    /\ yielded[3] = DataFrame(ToolResultEvent("dict"))

\* the last k elements of seq
LastN(seq, k) == SubSeq(seq, Len(seq) - k + 1, Len(seq))
Min(a, b) == IF a <= b THEN a ELSE b

\* C36: what tail(n) handed out, n >= 0, is at most n messages: the last
\* min(n, length) messages of the bus as it stood, in publish order; the
\* bus is as it was.
C36_TailLastN ==
    returned.op = "tail" =>
        LET was == SubSeq(sent, 1, returned.at) IN
        /\ Len(returned.value) <= returned.arg
        /\ returned.value = LastN(was, Min(returned.arg, Len(was)))
        /\ bus = sent

=============================================================================
